---- MODULE Spec2Model ----
(***************************************************************************)
(* A model of the stdio JSON-RPC dispatcher of go-mcp (package router):    *)
(* Server.Run, Server.dispatch, Server.respondWithError,                   *)
(* Server.writeResponse and the builtin handlers, together with the        *)
(* envelope types of package types and the tool handlers of package tools. *)
(***************************************************************************)
EXTENDS Integers, Sequences, FiniteSets, TLC

(***************************************************************************)
(* Bounds of the model.                                                    *)
(***************************************************************************)
\* The number of Decode calls that deliver a JSON value before the stream
\* ends or breaks.
MaxMsgs == 2
\* The number of writeResponse calls the concurrent callers make in all.
MaxWrites == 3
\* The number of registration calls made after NewServer, and the number of
\* listings taken of each registry.
MaxRegs == 2
MaxLists == 2

(***************************************************************************)
(* Program constants (package types).                                      *)
(***************************************************************************)
JSONRPCVersion == "2.0"
ProtocolVersion == "2024-06-24"

CodeParseError == -32700
CodeInvalidRequest == -32600
CodeMethodNotFound == -32601
CodeInvalidParams == -32602
CodeInternalError == -32603
CodeApplicationError == -32001
CodeToolError == -32002

(***************************************************************************)
(* JSON values as encoding/json sees them.  t is the kind of the value, s  *)
(* the literal text of a string or a number, o the members of an object    *)
(* as <<key, value>> pairs.  "absent" stands for a key that is not there.  *)
(***************************************************************************)
J(t, s, o) == [t |-> t, s |-> s, o |-> o]
JAbsent == J("absent", "", {})
JNull == J("null", "", {})
JStr(s) == J("str", s, {})
JNum(s) == J("num", s, {})
JArr == J("arr", "", {})
JObj(o) == J("obj", "", o)

Keys(v) == {p[1] : p \in v.o}
Member(v, k) == IF k \in Keys(v) THEN (CHOOSE p \in v.o : p[1] = k)[2] ELSE JAbsent

\* encoding/json storing a JSON value into a Go string field: an absent key
\* or null leaves the zero value, a string is stored, anything else is an
\* UnmarshalTypeError.
StringFieldOK(v) == v.t \in {"absent", "null", "str"}
StringField(v) == IF v.t = "str" THEN v.s ELSE ""

\* encoding/json storing into a json.RawMessage field (a slice): the literal
\* is kept, null included; an absent key leaves the nil slice.
RawField(v) == v

\* encoding/json storing into a *json.RawMessage field: an absent key leaves
\* the nil pointer, and JSON null sets the pointer to nil; any other value is
\* kept literally in fresh storage.
\* A decoder that stores the literal null as it stores any other literal.
RawPtrFieldKeepsNull(v) == v
RawPtrField(v) == IF v.t \in {"absent", "null"} THEN JAbsent ELSE v

\* len(raw) of a json.RawMessage.
RawLen0(raw) == raw.t = "absent"

(***************************************************************************)
(* types.Request, and decoding one JSON value of the stream into it.       *)
(* IDLit is the literal the decoder stores for the id (JAbsent: the        *)
(* pointer stays nil).                                                     *)
(***************************************************************************)
ZeroRequest == [JSONRPC |-> "", IDLit |-> JAbsent, Method |-> "", Params |-> JAbsent]

\* A decoder that leaves a field it cannot store at its zero value and
\* reports no error.
DecodeOKLenient(v) == TRUE

DecodeOK(v) ==
    \/ v.t = "null"
    \/ /\ v.t = "obj"
       /\ StringFieldOK(Member(v, "jsonrpc"))
       /\ StringFieldOK(Member(v, "method"))

DecodeRequest(v) ==
    IF v.t = "obj"
    THEN [JSONRPC |-> StringField(Member(v, "jsonrpc")),
          IDLit   |-> RawPtrField(Member(v, "id")),
          Method  |-> StringField(Member(v, "method")),
          Params  |-> RawField(Member(v, "params"))]
    ELSE ZeroRequest

(***************************************************************************)
(* types.DecodeParams: strict decoding of params into a struct whose JSON  *)
(* keys and Go types are `fields`; a key outside the struct is an error    *)
(* (DisallowUnknownFields), and so is a value of the wrong JSON kind.      *)
(***************************************************************************)
Quote(s) == "\"" \o s \o "\""

\* The JSON keys of types.ClientInfo, both strings.
ClientInfoFields == {"name", "version"}

FieldOK(v, type) ==
    CASE type = "string" -> StringFieldOK(v)
      [] type = "raw"    -> TRUE
      [] type = "struct" -> \/ v.t \in {"absent", "null"}
                            \/ /\ v.t = "obj"
                               /\ Keys(v) \subseteq ClientInfoFields
                               /\ \A k \in Keys(v) : StringFieldOK(Member(v, k))
      [] OTHER           -> \/ v.t \in {"absent", "null"}
                            \/ v.t = "obj" /\ \A k \in Keys(v) : StringFieldOK(Member(v, k))

\* A decoder without DisallowUnknownFields: unknown keys are skipped.
DecodeParamsLenient(raw, fields) ==
    \/ RawLen0(raw)
    \/ raw.t = "null"
    \/ /\ raw.t = "obj"
       /\ \A k \in Keys(raw) \cap DOMAIN fields : FieldOK(Member(raw, k), fields[k])

DecodeParamsOK(raw, fields) ==
    \/ RawLen0(raw)
    \/ raw.t = "null"
    \/ /\ raw.t = "obj"
       /\ Keys(raw) \subseteq DOMAIN fields
       /\ \A k \in Keys(raw) : FieldOK(Member(raw, k), fields[k])

\* The text of the error DecodeParams returns when it fails.
DecodeParamsErr(raw, fields) ==
    IF raw.t = "obj" /\ ~(Keys(raw) \subseteq DOMAIN fields)
    THEN "json: unknown field " \o Quote(CHOOSE k \in Keys(raw) : k \notin DOMAIN fields)
    ELSE IF /\ raw.t = "obj"
            /\ \E k \in Keys(raw) : /\ fields[k] = "struct"
                                     /\ Member(raw, k).t = "obj"
                                     /\ ~(Keys(Member(raw, k)) \subseteq ClientInfoFields)
    THEN "json: unknown field " \o Quote(CHOOSE f \in Keys(Member(raw, "clientInfo")) : f \notin ClientInfoFields)
    ELSE "json: cannot unmarshal"

\* The JSON keys of the parameter structs and the Go type of each.
InitializeFields ==
    [clientInfo |-> "struct", protocolVersion |-> "string",
     capabilities |-> "raw", metadata |-> "map"]
PingFields == [message |-> "string"]
CallToolFields == [name |-> "string", arguments |-> "raw"]

(***************************************************************************)
(* types.Error and its constructors.  NilErr is the nil *Error.            *)
(***************************************************************************)
NilErr == [kind |-> "nil"]
NewError(code, message) == [kind |-> "error", Code |-> code, Message |-> message, Data |-> "nil"]
\* Invalid params reported as an internal error.
NewInvalidParamsErrorAsInternal(text) == NewError(CodeInternalError, text)

NewInvalidParamsError(text) == NewError(CodeInvalidParams, text)
\* A tool error that keeps the failure as auxiliary data.
NewToolErrorWithData(text) == [NewError(CodeToolError, "tool failed") EXCEPT !.Data = text]

NewToolError(text) == NewError(CodeToolError, text)

(***************************************************************************)
(* Package tools: definitions, registrations and the handlers of the two   *)
(* tools registered at load time.  A Handler value is named by the tool it *)
(* belongs to.                                                             *)
(***************************************************************************)
ToolDefinition(name, description, schema) ==
    [Name |-> name, Description |-> description, InputSchema |-> schema]
Registration(def, handler) == [Definition |-> def, Handler |-> handler]

EchoTool == Registration(ToolDefinition("echo", "Echo a message back to the caller.", "echo_schema"), "echo")
CPUTool == Registration(ToolDefinition("cpu_status", "Report CPU load averages and recent utilization.", "cpu_schema"), "cpu_status")

\* tools.Registered() after the init functions of package tools have run.
Registered == <<CPUTool, EchoTool>>

\* A nil Handler and a nil JSONSchema, and the schema NewRegistration puts
\* in the place of a nil one.
NilHandler == "nil"
NilSchema == "nil"
ObjectSchema == "{type:object}"

\* The result of a registration call: the error text ("" for nil) and the
\* map and the order the call leaves.
RegResult(err, index, order) == [err |-> err, index |-> index, order |-> order]

\* A NewRegistration that validates nothing.
NewRegistrationUnchecked(def, handler) ==
    [err |-> "",
     reg |-> Registration(IF def.InputSchema = NilSchema
                          THEN [def EXCEPT !.InputSchema = ObjectSchema] ELSE def,
                          handler),
     caller |-> def]

\* The copy `sanitized := def` with the default schema in the place of a
\* nil one.
Sanitized(def) ==
    IF def.InputSchema = NilSchema THEN [def EXCEPT !.InputSchema = ObjectSchema] ELSE def

\* A NewRegistration that works on the caller's definition through a
\* pointer: the default schema lands in the caller's value too.
NewRegistrationInPlace(def, handler) ==
    IF def.Name = "" THEN [err |-> "tool name is empty", reg |-> Registration(def, handler), caller |-> def]
    ELSE IF handler = NilHandler
    THEN [err |-> "handler of tool " \o def.Name \o " is nil", reg |-> Registration(def, handler), caller |-> def]
    ELSE [err |-> "", reg |-> Registration(Sanitized(def), handler), caller |-> Sanitized(def)]

\* tools.NewRegistration: the validation, and the default schema.  def is
\* a parameter passed by value: caller is the value the caller still holds
\* when the function has returned.
NewRegistration(def, handler) ==
    IF def.Name = "" THEN [err |-> "tool name is empty", reg |-> Registration(def, handler), caller |-> def]
    ELSE IF handler = NilHandler
    THEN [err |-> "handler of tool " \o def.Name \o " is nil", reg |-> Registration(def, handler), caller |-> def]
    ELSE [err |-> "", reg |-> Registration(Sanitized(def), handler), caller |-> def]

\* m[name] = reg on a Go map.
MapPut(m, name, reg) == [n \in DOMAIN m \cup {name} |-> IF n = name THEN reg ELSE m[n]]
EmptyMap == <<>>

\* A Register that appends the name to the order before it looks the name
\* up in the index.
RegisterAppendsFirst(index, order, def, handler) ==
    LET r == NewRegistration(def, handler) IN
    IF r.err # "" THEN RegResult(r.err, index, order)
    ELSE IF def.Name \in DOMAIN index THEN RegResult("tool " \o def.Name \o " exists", index, Append(order, def.Name))
    ELSE RegResult("", MapPut(index, def.Name, r.reg), Append(order, def.Name))

\* tools.Register on the package registry (under registryMu).
Register(index, order, def, handler) ==
    LET r == NewRegistration(def, handler) IN
    IF r.err # "" THEN RegResult(r.err, index, order)
    ELSE IF def.Name \in DOMAIN index THEN RegResult("tool " \o def.Name \o " exists", index, order)
    ELSE RegResult("", MapPut(index, def.Name, r.reg), Append(order, def.Name))

\* A RegisterTool that replaces the registration of a name it knows.
RegisterToolOverwrites(ts, order, def, handler) ==
    LET r == NewRegistration(def, handler) IN
    IF r.err # "" THEN RegResult(r.err, ts, order)
    ELSE IF def.Name \in DOMAIN ts THEN RegResult("", MapPut(ts, def.Name, r.reg), order)
    ELSE RegResult("", MapPut(ts, def.Name, r.reg), Append(order, def.Name))

\* Server.RegisterTool on Server.tools and Server.toolOrder.
RegisterTool(ts, order, def, handler) ==
    LET r == NewRegistration(def, handler) IN
    IF r.err # "" THEN RegResult(r.err, ts, order)
    ELSE IF def.Name \in DOMAIN ts THEN RegResult("tool " \o def.Name \o " already registered", ts, order)
    ELSE RegResult("", MapPut(ts, def.Name, r.reg), Append(order, def.Name))

\* tools.Registered: the registrations in the order of registryOrder.
RegisteredList(index, order) == [i \in DOMAIN order |-> index[order[i]]]

\* The init functions of package tools: MustRegister of each tool in turn.
RECURSIVE MustRegisterAll(_, _, _)
MustRegisterAll(regs, index, order) ==
    IF regs = <<>> THEN RegResult("", index, order)
    ELSE LET r == Register(index, order, Head(regs).Definition, Head(regs).Handler) IN
         MustRegisterAll(Tail(regs), r.index, r.order)

\* A registerDefaultTools that goes on to the next registration when one
\* fails, and returns nil.
RECURSIVE RegisterDefaultToolsSkipsErrors(_, _, _)
RegisterDefaultToolsSkipsErrors(regs, ts, order) ==
    IF regs = <<>> THEN RegResult("", ts, order)
    ELSE LET r == RegisterTool(ts, order, Head(regs).Definition, Head(regs).Handler) IN
         RegisterDefaultToolsSkipsErrors(Tail(regs), r.index, r.order)

\* Server.registerDefaultTools: RegisterTool of each registration, stopping
\* at the first error.
RECURSIVE RegisterDefaultTools(_, _, _)
RegisterDefaultTools(regs, ts, order) ==
    IF regs = <<>> THEN RegResult("", ts, order)
    ELSE LET r == RegisterTool(ts, order, Head(regs).Definition, Head(regs).Handler) IN
         IF r.err # "" THEN r ELSE RegisterDefaultTools(Tail(regs), r.index, r.order)

\* The Options: WithLogger and WithServerInfo set the logger and the info,
\* and an Option of the caller's own, a func(*Server), that calls
\* s.RegisterTool and has nowhere to return its error.
WithLogger == [kind |-> "WithLogger", def |-> ToolDefinition("", "", NilSchema), handler |-> NilHandler]
WithServerInfo == [kind |-> "WithServerInfo", def |-> ToolDefinition("", "", NilSchema), handler |-> NilHandler]
WithTool(def, handler) == [kind |-> "register", def |-> def, handler |-> handler]

\* opt(srv) for each option in turn, on the tools and the order of srv.
RECURSIVE ApplyOptions(_, _, _)
ApplyOptions(opts, ts, order) ==
    IF opts = <<>> THEN RegResult("", ts, order)
    ELSE LET r == IF Head(opts).kind = "register"
                  THEN RegisterTool(ts, order, Head(opts).def, Head(opts).handler)
                  ELSE RegResult("", ts, order)
         IN  ApplyOptions(Tail(opts), r.index, r.order)

\* NewServer on the slice tools.Registered() returns: the empty map and
\* order, the options, registerDefaultTools; err is the error returned,
\* index and order are the fields of srv when NewServer returns.
NewServer(opts, regs) ==
    LET o == ApplyOptions(opts, EmptyMap, <<>>) IN
    RegisterDefaultTools(regs, o.index, o.order)

TextContent(text) == [Type |-> "text", Text |-> text]
NilResult == [kind |-> "nil"]

\* A []ContentItem: the nil slice, or a slice holding items (none included).
NilSlice == [isNil |-> TRUE, items |-> <<>>]
Slice(items) == [isNil |-> FALSE, items |-> items]
CallToolResult(content) == [kind |-> "CallToolResult", Content |-> content]

ToolOK(result) == [failed |-> FALSE, text |-> "", result |-> result]
ToolFail(text) == [failed |-> TRUE, text |-> text, result |-> NilResult]

\* The handler of the echo tool: json.Unmarshal of the arguments into
\* struct{Message string}, then the empty-message check.
EchoHandler(arguments) ==
    IF RawLen0(arguments) THEN ToolFail("unexpected end of JSON input")
    ELSE IF arguments.t \notin {"null", "obj"} \/ ~StringFieldOK(Member(arguments, "message"))
    THEN ToolFail("json: cannot unmarshal")
    ELSE IF StringField(Member(arguments, "message")) = "" THEN ToolFail("message cannot be empty")
    ELSE ToolOK(CallToolResult(Slice(<<TextContent(StringField(Member(arguments, "message")))>>)))

\* ensureNoArguments of cpu_status: "" when the arguments are acceptable,
\* otherwise the error text.
EnsureNoArguments(raw) ==
    IF RawLen0(raw) \/ raw.t = "null" \/ (raw.t = "obj" /\ raw.o = {}) THEN ""
    ELSE IF raw.t # "obj" THEN "invalid arguments: json: cannot unmarshal"
    ELSE "cpu_status does not accept arguments"

\* What the operating system does to one cpu_status call: which of the
\* reads of /proc fails, if any; and "late": the goroutine reaches the
\* select of sampleCPUUsage when the sampling window has already elapsed,
\* and the select takes the case of the timer.
ToolEnvs == {"ok", "loadavg", "stat1", "stat2", "late"}

\* A sampleCPUUsage that sleeps for the window without a look at ctx.
SampleCPUUsageSleeps(ctxDone, env) ==
    IF env = "stat1" THEN ToolFail("read /proc/stat")
    ELSE IF env = "stat2" THEN ToolFail("read /proc/stat")
    ELSE ToolOK(NilResult)

\* sampleCPUUsage: first sample, then the race of ctx.Done() against the
\* sampling timer, then the second sample.  With ctx done and the timer
\* not yet fired the select takes the case of ctx.Done(); with both ready
\* it takes either.
SampleCPUUsage(ctxDone, env) ==
    IF env = "stat1" THEN ToolFail("read /proc/stat")
    ELSE IF ctxDone /\ env # "late" THEN ToolFail("context canceled")
    ELSE IF env = "stat2" THEN ToolFail("read /proc/stat")
    ELSE ToolOK(NilResult)

\* The handler of the cpu_status tool.
CPUHandler(ctxDone, arguments, env) ==
    IF EnsureNoArguments(arguments) # "" THEN ToolFail(EnsureNoArguments(arguments))
    ELSE IF env = "loadavg" THEN ToolFail("read /proc/loadavg")
    ELSE IF SampleCPUUsage(ctxDone, env).failed THEN SampleCPUUsage(ctxDone, env)
    ELSE ToolOK(CallToolResult(Slice(<<TextContent("CPU cores")>>)))

\* A handler registered by the program that embeds the server: it may
\* return any pair of a *CallToolResult and an error.
StubEnvs == {"nil", "nil content", "no items", "text", "error", "result and error"}
StubHandler(env) ==
    CASE env = "nil"         -> ToolOK(NilResult)
      [] env = "nil content" -> ToolOK(CallToolResult(NilSlice))
      [] env = "no items"    -> ToolOK(CallToolResult(Slice(<<>>)))
      [] env = "text"        -> ToolOK(CallToolResult(Slice(<<TextContent("done")>>)))
      [] env = "error"       -> ToolFail("stub failed")
      [] OTHER               -> [failed |-> TRUE, text |-> "stub failed late",
                                 result |-> CallToolResult(Slice(<<TextContent("partial")>>))]

\* Calling a registered Handler value.
CallHandler(handler, ctxDone, arguments, env) ==
    IF handler = "echo" THEN EchoHandler(arguments)
    ELSE IF handler = "stub" THEN StubHandler(env)
    ELSE CPUHandler(ctxDone, arguments, env)

(***************************************************************************)
(* The state of one router.Server and of the Run call on it.               *)
(***************************************************************************)
VARIABLES
    pc,           \* where Run is: "poll", "decode", "write", "done"
    runErr,       \* what Run returned: "" while running, "nil", or the error
    ctxDone,      \* whether ctx.Done() is closed
    nread,        \* how many JSON values the decoder has delivered
    req,          \* the types.Request of the current iteration
    heap,         \* the storage of the identifiers: address -> literal
    pending,      \* the responses dispatch has built and not yet written
    initialized,  \* Server.initialized
    tools,        \* Server.tools: name -> registration
    toolOrder,    \* Server.toolOrder
    wbuf,         \* the bytes held by the bufio.Writer
    werr,         \* the sticky error of the bufio.Writer
    encErr,       \* the sticky error of the json.Encoder
    out,          \* the envelopes the output sink has received
    wire,         \* history: the JSON value the current iteration decoded
    lastDecode,   \* history: how the latest Decode call ended
    inIds,        \* history: the ids of the decoded envelopes that carry one
    handed,       \* history: the responses handed to writeResponse
    wfail,        \* history: whether a writeResponse call has failed
    ran,          \* history: the handler and the tool the current iteration
                  \* ran, and what the handler returned
    sinceCancel,  \* history: how many requests were decoded since ctx was cancelled
    registryIndex,  \* package tools: registryIndex
    registryOrder,  \* package tools: registryOrder
    nreg,         \* history: how many registration calls have returned
    lastReg,      \* history: the latest registration call and what it returned
    okRegs,       \* history: per registry, the definitions registered with success
    listed,       \* history: per registry, the latest listing and when it was made
    wpc,          \* where each concurrent caller of writeResponse is
    mutex,        \* Server.writerMutex: the caller that holds it, or NoHolder
    mcpTools,     \* package mcp: Server.tools, name -> registration
    mcpRegs,      \* history: the names registered with the mcp Server, in order
    mcpLast,      \* history: the latest mcp RegisterTool call and what it returned
    mcpListed,    \* history: the latest tools/list of the mcp Server
    linePc,       \* line-scanning Server: where its Run is: "new", "scan", "done"
    lineRet,      \* what its Run returned: "" while running, "nil", or the error
    lineInitialized,  \* its field initialized
    lineTools,    \* its field tools: name -> tool
    lineRead,     \* how many lines its scanner has delivered
    lineOut,      \* the lines it has written to its output
    lineWire,     \* history: the line its latest iteration has scanned
    regPc,        \* per goroutine that calls tools.Register: where it is, and its locals
    readPc,       \* per goroutine that calls tools.Registered: where it is, and its locals
    registryMu,   \* package tools: registryMu, its writer and its readers
    snaps,        \* history: the slices the Registered calls have returned
    sinkUp,       \* the io.Writer given to NewServer: whether its Write succeeds now
    sinkLog,      \* history: sinkUp at each call of writeResponse
    srv           \* main: what NewServer was given and has returned

vars == <<pc, runErr, ctxDone, nread, req, heap, pending, initialized, tools,
          toolOrder, wbuf, werr, encErr, out, wire, lastDecode, inIds, handed, wfail, ran,
          sinceCancel, registryIndex, registryOrder, nreg, lastReg, okRegs, listed, wpc, mutex,
          mcpTools, mcpRegs, mcpLast, mcpListed,
          linePc, lineRet, lineInitialized, lineTools, lineRead, lineOut, lineWire,
          regPc, readPc, registryMu, snaps, sinkUp, sinkLog, srv>>

(***************************************************************************)
(* Identifier storage.  A *json.RawMessage is an address or NilPtr.        *)
(***************************************************************************)
NilPtr == "nil"
Addrs == {"a1", "a2"}
Free == J("free", "", {})
EmptyHeap == [a \in Addrs |-> Free]
Alloc(h) == CHOOSE a \in Addrs : h[a] = Free

\* CloneID returning its argument: the response shares the request's slice.
CloneIDAliased(id, h) == [ptr |-> id, heap |-> h]

\* types.CloneID: nil for nil, otherwise a fresh slice holding a copy.
CloneID(id, h) ==
    IF id = NilPtr THEN [ptr |-> NilPtr, heap |-> h]
    ELSE [ptr |-> Alloc(h), heap |-> [h EXCEPT ![Alloc(h)] = h[id]]]

(***************************************************************************)
(* The server's metadata and registry.                                     *)
(***************************************************************************)
ServerInfo == [Name |-> "go-mcp-server", Version |-> "dev"]

Names(ts) == DOMAIN ts
Lookup(ts, name) == ts[name]

(***************************************************************************)
(* The builtin handlers.  Each yields the handler's result and error, the  *)
(* value of Server.initialized it leaves, and the tool handler it called.  *)
(***************************************************************************)
EmptyStruct == [kind |-> "struct{}"]
NoToolReturn == ToolOK(NilResult)
HandlerOut(result, err, init, tool) ==
    [result |-> result, err |-> err, initialized |-> init, tool |-> tool, toolRet |-> NoToolReturn,
     calls |-> 0]
\* The handler's outcome o, with what the tool handler it called returned.
Called(o, t) == [o EXCEPT !.toolRet = t, !.calls = @ + 1]

\* A handleInitialize that sets the flag before it decodes the params.
HandleInitializeSetsFlagFirst(init, r) ==
    IF ~RawLen0(r.Params) /\ ~DecodeParamsOK(r.Params, InitializeFields)
    THEN HandlerOut(NilResult, NewInvalidParamsError(DecodeParamsErr(r.Params, InitializeFields)), TRUE, "")
    ELSE HandlerOut([kind |-> "InitializeResult", ProtocolVersion |-> ProtocolVersion,
                     ServerInfo |-> ServerInfo, Tools |-> [List |-> TRUE, Call |-> TRUE]],
                    NilErr, TRUE, "")

HandleInitialize(init, r) ==
    IF ~RawLen0(r.Params) /\ ~DecodeParamsOK(r.Params, InitializeFields)
    THEN HandlerOut(NilResult, NewInvalidParamsError(DecodeParamsErr(r.Params, InitializeFields)), init, "")
    ELSE HandlerOut([kind |-> "InitializeResult", ProtocolVersion |-> ProtocolVersion,
                     ServerInfo |-> ServerInfo, Tools |-> [List |-> TRUE, Call |-> TRUE]],
                    NilErr, TRUE, "")

HandlePing(init, r) ==
    IF ~RawLen0(r.Params) /\ ~DecodeParamsOK(r.Params, PingFields)
    THEN HandlerOut(NilResult, NewInvalidParamsError(DecodeParamsErr(r.Params, PingFields)), init, "")
    ELSE HandlerOut([kind |-> "PingResult", Status |-> "ok",
                     Message |-> StringField(Member(r.Params, "message"))],
                    NilErr, init, "")

\* A tools/list that walks the map, which has no order of its own: here
\* the names come out last first.
HandleListToolsFromMap(init, ts, order) ==
    HandlerOut([kind |-> "ListToolsResult",
                Tools |-> [i \in DOMAIN order |-> Lookup(ts, order[Len(order) + 1 - i]).Definition]],
               NilErr, init, "")

HandleListTools(init, ts, order) ==
    HandlerOut([kind |-> "ListToolsResult",
                Tools |-> [i \in DOMAIN order |-> Lookup(ts, order[i]).Definition]],
               NilErr, init, "")

\* A registry miss reported without the name.
ToolNotRegisteredUnnamed(name) == NewError(CodeApplicationError, "tool not registered")

\* The error of handleCallTool for a name the registry does not hold.
ToolNotRegistered(name) == NewError(CodeApplicationError, "tool " \o Quote(name) \o " not registered")

\* A handleCallTool that returns what the tool handler returned.
ToolResultAsReturned(result) == result

\* The result of handleCallTool when the tool handler succeeded: an empty
\* content list in the place of a nil result.
ToolResult(result) == IF result = NilResult THEN CallToolResult(Slice(<<>>)) ELSE result

HandleCallTool(init, ts, r, done, env) ==
    IF RawLen0(r.Params)
    THEN HandlerOut(NilResult, NewInvalidParamsError("missing params"), init, "")
    ELSE IF ~DecodeParamsOK(r.Params, CallToolFields)
    THEN HandlerOut(NilResult, NewInvalidParamsError(DecodeParamsErr(r.Params, CallToolFields)), init, "")
    ELSE IF StringField(Member(r.Params, "name")) = ""
    THEN HandlerOut(NilResult, NewInvalidParamsError("missing tool name"), init, "")
    ELSE LET name == StringField(Member(r.Params, "name")) IN
         IF name \notin Names(ts)
         THEN HandlerOut(NilResult, ToolNotRegistered(name), init, "")
         ELSE LET t == CallHandler(Lookup(ts, name).Handler, done, RawField(Member(r.Params, "arguments")), env) IN
              IF t.failed THEN Called(HandlerOut(NilResult, NewToolError(t.text), init, name), t)
              ELSE Called(HandlerOut(ToolResult(t.result), NilErr, init, name), t)

\* A handler table with one more entry.
HandlersWithExtra == {"initialize", "ping", "tools/list", "tools/call", "anything"}

\* Server.handlers as registerBuiltins fills it.
Handlers == {"initialize", "ping", "tools/list", "tools/call"}

\* Handlers that refuse to work until initialize has been handled.
CallMethodGated(method, init, ts, order, r, done, env) ==
    CASE method = "initialize" -> HandleInitialize(init, r)
      [] ~init                 -> HandlerOut(NilResult, NewError(CodeInvalidRequest, "not initialized"), init, "")
      [] method = "ping"       -> HandlePing(init, r)
      [] method = "tools/list" -> HandleListTools(init, ts, order)
      [] OTHER                 -> HandleCallTool(init, ts, r, done, env)

CallMethod(method, init, ts, order, r, done, env) ==
    CASE method = "initialize" -> HandleInitialize(init, r)
      [] method = "ping"       -> HandlePing(init, r)
      [] method = "tools/list" -> HandleListTools(init, ts, order)
      [] OTHER                 -> HandleCallTool(init, ts, r, done, env)

(***************************************************************************)
(* Server.dispatch and Server.respondWithError, up to the call of          *)
(* writeResponse: the responses built (none or one), the identifier        *)
(* storage, Server.initialized, and what ran.                              *)
(***************************************************************************)
Response(id, result, err) == [JSONRPC |-> JSONRPCVersion, ID |-> id, Result |-> result, Error |-> err]
NoRun ==
    [handler |-> "", tool |-> "", result |-> NilResult, err |-> NilErr, toolRet |-> NoToolReturn,
     calls |-> 0]
Ran(method, o) ==
    [handler |-> method, tool |-> o.tool, result |-> o.result, err |-> o.err, toolRet |-> o.toolRet,
     calls |-> o.calls]
Outcome(resps, h, init, r) == [resps |-> resps, heap |-> h, initialized |-> init, ran |-> r]

\* respondWithError that sends nothing.
RespondWithErrorDrops(r, errObj, h, init) == Outcome(<<>>, h, init, NoRun)

RespondWithError(r, errObj, h, init) ==
    IF r.ID = NilPtr THEN Outcome(<<>>, h, init, NoRun)
    ELSE LET c == CloneID(r.ID, h) IN
         Outcome(<<Response(c.ptr, NilResult, errObj)>>, c.heap, init, NoRun)

\* dispatch without the substitution of struct{}{} for a nil result.
BuildResponseOmitsEmpty(id, result, errObj) ==
    IF errObj # NilErr THEN Response(id, NilResult, errObj) ELSE Response(id, result, NilErr)

\* The response dispatch builds from what the handler returned.
BuildResponse(id, result, errObj) ==
    IF errObj # NilErr THEN Response(id, NilResult, errObj)
    ELSE IF result = NilResult THEN Response(id, EmptyStruct, NilErr)
    ELSE Response(id, result, NilErr)

\* dispatch without the notification check.
AfterHandlerAnswersAll(r, o, h) ==
    Outcome(<<BuildResponse(CloneID(r.ID, h).ptr, o.result, o.err)>>, CloneID(r.ID, h).heap,
            o.initialized, Ran(r.Method, o))

\* dispatch after the handler has returned o.
AfterHandler(r, o, h) ==
    IF r.ID = NilPtr
    THEN Outcome(<<>>, h, o.initialized, Ran(r.Method, o))
    ELSE LET c == CloneID(r.ID, h) IN
         Outcome(<<BuildResponse(c.ptr, o.result, o.err)>>, c.heap, o.initialized, Ran(r.Method, o))

\* A dispatch that returns at once for a request without an id.
DispatchSkipsNotifications(r, h, init, ts, order, done, env) ==
    IF r.ID = NilPtr THEN Outcome(<<>>, h, init, NoRun)
    ELSE IF r.Method \notin Handlers
    THEN RespondWithError(r, NewError(CodeMethodNotFound, "method " \o Quote(r.Method) \o " not found"), h, init)
    ELSE AfterHandler(r, CallMethod(r.Method, init, ts, order, r, done, env), h)

Dispatch(r, h, init, ts, order, done, env) ==
    IF r.Method \notin Handlers
    THEN RespondWithError(r, NewError(CodeMethodNotFound, "method " \o Quote(r.Method) \o " not found"), h, init)
    ELSE AfterHandler(r, CallMethod(r.Method, init, ts, order, r, done, env), h)

\* A version check that takes the empty tag for a wrong version.
VersionRejectedWhenEmpty(r) == r.JSONRPC # JSONRPCVersion

\* The version check of Run.
VersionRejected(r) == r.JSONRPC # "" /\ r.JSONRPC # JSONRPCVersion

\* A Run that routes first: the version is looked at only once the method
\* is found in the handler table and its handler has run.
RunBodyRoutesFirst(r, h, init, ts, order, done, env) ==
    IF r.Method \notin Handlers THEN Dispatch(r, h, init, ts, order, done, env)
    ELSE IF VersionRejected(r)
    THEN RespondWithError(r, NewError(CodeInvalidRequest, "expected jsonrpc version " \o JSONRPCVersion), h,
                          CallMethod(r.Method, init, ts, order, r, done, env).initialized)
    ELSE Dispatch(r, h, init, ts, order, done, env)

\* The body of one iteration of Run once a request is decoded.
RunBody(r, h, init, ts, order, done, env) ==
    IF VersionRejected(r)
    THEN RespondWithError(r, NewError(CodeInvalidRequest, "expected jsonrpc version " \o JSONRPCVersion), h, init)
    ELSE Dispatch(r, h, init, ts, order, done, env)

(***************************************************************************)
(* Server.writeResponse: json.Encoder.Encode into the bufio.Writer, then   *)
(* Flush.  Both keep the first error they meet and return it ever after.   *)
(***************************************************************************)
\* The envelope the encoder emits; omitempty drops a nil id, a nil result
\* and a nil error.
Encode(resp, h) ==
    [jsonrpc   |-> resp.JSONRPC,
     id        |-> IF resp.ID = NilPtr THEN JAbsent ELSE h[resp.ID],
     hasResult |-> resp.Result # NilResult,
     result    |-> resp.Result,
     hasError  |-> resp.Error # NilErr,
     error     |-> resp.Error]

\* sinkOK: whether the output sink accepts the Write that Flush issues.
WriteResponseResult(resp, h, buf, we, ee, o, sinkOK) ==
    IF ee THEN [wbuf |-> buf, werr |-> we, encErr |-> ee, out |-> o, failed |-> TRUE]
    ELSE IF we THEN [wbuf |-> buf, werr |-> we, encErr |-> TRUE, out |-> o, failed |-> TRUE]
    ELSE IF sinkOK
    THEN [wbuf |-> <<>>, werr |-> FALSE, encErr |-> FALSE,
          out |-> o \o Append(buf, Encode(resp, h)), failed |-> FALSE]
    ELSE [wbuf |-> Append(buf, Encode(resp, h)), werr |-> TRUE, encErr |-> FALSE,
          out |-> o, failed |-> TRUE]

\* A dispatch that gives up when writeResponse fails.
AfterWriteFatal(failed) == IF failed THEN "done" ELSE "poll"

\* What dispatch and respondWithError do with the error of writeResponse:
\* they log it; the loop goes on either way.
AfterWrite(failed) == "poll"

(***************************************************************************)
(* What the input stream can deliver to one Decode call.                   *)
(***************************************************************************)
Envelope(tag, id, method, params) ==
    JObj({p \in {<<"jsonrpc", tag>>, <<"id", id>>, <<"method", method>>, <<"params", params>>} :
            p[2].t # "absent"})

Tags == {JAbsent, JStr(""), JStr("2.0"), JStr("1.0")}
Ids == {JAbsent, JNull, JNum("1"), JStr("a")}
Calls ==
    { <<"initialize", JObj({<<"protocolVersion", JStr(ProtocolVersion)>>})>>,
      <<"initialize", JObj({<<"bogus", JStr("x")>>})>>,
      <<"ping", JObj({<<"message", JStr("hi")>>})>>,
      <<"tools/list", JAbsent>>,
      <<"tools/call", JAbsent>>,
      <<"tools/call", JNull>>,
      <<"tools/call", JObj({<<"name", JStr("echo")>>, <<"arguments", JObj({<<"message", JStr("hello")>>})>>})>>,
      <<"tools/call", JObj({<<"name", JStr("echo")>>})>>,
      <<"tools/call", JObj({<<"name", JStr("cpu_status")>>})>>,
      <<"tools/call", JObj({<<"name", JStr("nope")>>})>>,
      <<"tools/call", JObj({<<"name", JStr("echo")>>, <<"args", JNull>>})>>,
      <<"anything", JAbsent>> }
\* The calls sent under every protocol tag; the others are sent under "2.0".
TaggedCalls ==
    { <<"initialize", JObj({<<"protocolVersion", JStr(ProtocolVersion)>>})>>,
      <<"tools/call", JObj({<<"name", JStr("echo")>>, <<"arguments", JObj({<<"message", JStr("hello")>>})>>})>>,
      <<"anything", JAbsent>> }

Item(k, v) == [k |-> k, v |-> v]
StreamItems ==
    {Item("eof", JNull), Item("syntax", JNull), Item("partial", JNull)}
    \cup {Item("value", Envelope(JStr("2.0"), i, JStr(c[1]), c[2])) : i \in Ids, c \in Calls}
    \cup {Item("value", Envelope(t, i, JStr(c[1]), c[2])) : t \in Tags, i \in Ids, c \in TaggedCalls}
    \cup {Item("value", v) : v \in {JNull, JArr, JStr("x"),
                                    Envelope(JNum("2"), JNum("1"), JStr("ping"), JAbsent),
                                    Envelope(JStr("2.0"), JStr("a"), JNum("7"), JAbsent)}}

\* The outcomes of the operating system that matter to the call in item.
EnvsFor(item) ==
    IF StringField(Member(Member(item.v, "params"), "name")) = "cpu_status" THEN ToolEnvs
    ELSE IF StringField(Member(Member(item.v, "params"), "name")) = "stub" THEN StubEnvs
    ELSE {"ok"}

\* json.Decoder.Decode into a types.Request: "ok", "eof" (io.EOF) or "error".
DecodeResult(item) ==
    IF item.k = "eof" THEN "eof"
    ELSE IF item.k = "value" /\ DecodeOK(item.v) THEN "ok"
    ELSE "error"

(***************************************************************************)
(* The state after NewServer: the builtins and the tools of                *)
(* tools.Registered() are bound, nothing is read or written yet.           *)
(***************************************************************************)
NoRequest == [JSONRPC |-> "", ID |-> NilPtr, Method |-> "", Params |-> JAbsent]

\* The two registries: the package's and the server's.
Targets == {"package", "server"}
\* The goroutines that call writeResponse at the same time.
Writers == {"w1", "w2"}
NoHolder == "none"
Idle == [at |-> "idle", call |-> 0]
NoReg ==
    [target |-> "", def |-> ToolDefinition("", "", NilSchema), handler |-> NilHandler, err |-> "",
     after |-> ToolDefinition("", "", NilSchema)]
NoMcpReg ==
    [n |-> 0, def |-> ToolDefinition("", "", NilSchema), handler |-> NilHandler, err |-> "",
     after |-> ToolDefinition("", "", NilSchema)]
NoMcpListing == [n |-> 0, regs |-> <<>>, list |-> <<>>]
NoLine == [k |-> "none", v |-> JAbsent]
\* The goroutines that call tools.Register and tools.Registered, their
\* state before the call, and the unlocked registryMu.
Registrars == {"g1", "g2"}
Readers == {"r1"}
ZeroRegistration == Registration(ToolDefinition("", "", NilSchema), NilHandler)
RegIdle == [at |-> "idle", def |-> ToolDefinition("", "", NilSchema), handler |-> NilHandler,
            reg |-> ZeroRegistration, err |-> ""]
ReadIdle == [at |-> "idle", n |-> 0, order |-> <<>>, result |-> <<>>]
Unlocked == [writer |-> NoHolder, readers |-> {}]
NoListing == [n |-> 0, at |-> 0, list |-> <<>>]

\* Package tools after its init functions, before any other call; no
\* goroutine is in writeResponse.
InitOffLoop ==
    /\ registryIndex = MustRegisterAll(Registered, EmptyMap, <<>>).index
    /\ registryOrder = MustRegisterAll(Registered, EmptyMap, <<>>).order
    /\ nreg = 0
    /\ lastReg = NoReg
    /\ okRegs = [t \in Targets |-> [i \in DOMAIN Registered |-> Registered[i].Definition]]
    /\ listed = [t \in Targets |-> NoListing]
    /\ wpc = [w \in Writers |-> Idle]
    /\ mutex = NoHolder
    /\ mcpTools = EmptyMap
    /\ mcpRegs = <<>>
    /\ mcpLast = NoMcpReg
    /\ mcpListed = NoMcpListing
    /\ linePc = "new"
    /\ lineRet = ""
    /\ lineInitialized = FALSE
    /\ lineTools = EmptyMap
    /\ lineRead = 0
    /\ lineOut = <<>>
    /\ lineWire = NoLine
    /\ regPc = [g \in Registrars |-> RegIdle]
    /\ readPc = [g \in Readers |-> ReadIdle]
    /\ registryMu = Unlocked
    /\ snaps = <<>>
    /\ sinkUp = TRUE
    /\ sinkLog = <<>>

\* The fields of a Server that NewServer leaves at their zero value, and
\* the history of a run that has not read anything.
InitLoop ==
    /\ runErr = ""
    /\ ctxDone = FALSE
    /\ nread = 0
    /\ req = NoRequest
    /\ heap = EmptyHeap
    /\ pending = <<>>
    /\ initialized = FALSE
    /\ wbuf = <<>>
    /\ werr = FALSE
    /\ encErr = FALSE
    /\ out = <<>>
    /\ wire = JAbsent
    /\ lastDecode = ""
    /\ inIds = <<>>
    /\ handed = <<>>
    /\ wfail = FALSE
    /\ ran = NoRun
    /\ sinceCancel = 0

InitRun ==
    /\ pc = "poll"
    /\ InitLoop

\* The registry NewServer builds from tools.Registered().
DefaultTools == RegisterDefaultTools(RegisteredList(registryIndex, registryOrder), EmptyMap, <<>>)

\* The options of main, and what NewServer has returned to it.
MainOptions == <<WithLogger, WithServerInfo>>
Built(opts, regs, r) ==
    [called |-> TRUE, opts |-> opts, bound |-> [i \in DOMAIN regs |-> regs[i].Definition], err |-> r.err]

Init ==
    /\ InitOffLoop
    /\ InitRun
    /\ tools = DefaultTools.index
    /\ toolOrder = DefaultTools.order
    /\ srv = Built(MainOptions, RegisteredList(registryIndex, registryOrder), DefaultTools)

registry == <<tools, toolOrder>>
mcpServer == <<mcpTools, mcpRegs, mcpLast, mcpListed>>
lineServer == <<linePc, lineRet, lineInitialized, lineTools, lineRead, lineOut, lineWire>>
concurrent == <<regPc, readPc, registryMu, snaps>>
sink == <<sinkUp, sinkLog>>
construction == <<srv>>
otherServers == <<mcpServer, lineServer, concurrent, sink, construction>>
offLoop == <<registryIndex, registryOrder, nreg, lastReg, okRegs, listed, wpc, mutex, otherServers>>
run == <<pc, runErr, ctxDone, nread, initialized, lastDecode, inIds, sinceCancel>>
packageRegistry == <<registryIndex, registryOrder>>
registrations == <<nreg, lastReg, okRegs, listed>>
writers == <<wpc, mutex>>
writer == <<wbuf, werr, encErr, out>>
iteration == <<req, heap, pending, wire, ran>>
WireId == Member(wire, "id")
WireTag == Member(wire, "jsonrpc")

\* The per-iteration variables of Run go out of scope.
EndIteration ==
    /\ req' = NoRequest
    /\ heap' = EmptyHeap
    /\ wire' = JAbsent
    /\ ran' = NoRun

(***************************************************************************)
(* Run.                                                                    *)
(***************************************************************************)
\* A loop that does not look at ctx.
PollSkipsCheck ==
    /\ pc = "poll"
    /\ pc' = "decode"
    /\ UNCHANGED <<runErr, ctxDone, nread, initialized, registry, offLoop, sinceCancel, writer, iteration, lastDecode,
                   inIds, handed, wfail>>

\* A Run that looks at ctx.Done() before its first read only.
PollBeforeFirstRead ==
    /\ pc = "poll"
    /\ IF ctxDone /\ nread = 0
       THEN pc' = "done" /\ runErr' = "context canceled"
       ELSE pc' = "decode" /\ runErr' = runErr
    /\ UNCHANGED <<ctxDone, nread, initialized, registry, offLoop, sinceCancel, writer, iteration, lastDecode,
                   inIds, handed, wfail>>

\* The select on ctx.Done() at the top of the loop.
Poll ==
    /\ pc = "poll"
    /\ IF ctxDone
       THEN pc' = "done" /\ runErr' = "context canceled"
       ELSE pc' = "decode" /\ runErr' = runErr
    /\ UNCHANGED <<ctxDone, nread, initialized, registry, offLoop, sinceCancel, writer, iteration, lastDecode, inIds, handed, wfail>>

\* A Run that reports the end of the stream as a decode error.
DecodeEOFAsError ==
    /\ pc = "decode"
    /\ pc' = "done"
    /\ runErr' = "decode request"
    /\ lastDecode' = "eof"
    /\ UNCHANGED <<ctxDone, nread, initialized, registry, offLoop, sinceCancel, writer, iteration, inIds, handed, wfail>>

\* Decode meets the end of the stream: Run returns nil.
DecodeEOF ==
    /\ pc = "decode"
    /\ \E item \in StreamItems :
        /\ DecodeResult(item) = "eof"
        /\ pc' = "done"
        /\ runErr' = "nil"
        /\ lastDecode' = "eof"
    /\ UNCHANGED <<ctxDone, nread, initialized, registry, offLoop, sinceCancel, writer, iteration, inIds, handed, wfail>>

\* A Run that skips what it cannot decode and reads on.
DecodeErrorSkips ==
    /\ pc = "decode"
    /\ pc' = "poll"
    /\ lastDecode' = "error"
    /\ UNCHANGED <<runErr, ctxDone, nread, initialized, registry, offLoop, sinceCancel, writer, iteration, inIds, handed, wfail>>

\* Decode fails otherwise: Run returns the wrapped error.
DecodeError ==
    /\ pc = "decode"
    /\ \E item \in StreamItems :
        /\ DecodeResult(item) = "error"
        /\ pc' = "done"
        /\ runErr' = "decode request"
        /\ lastDecode' = "error"
        /\ wire' = IF item.k = "value" THEN item.v ELSE wire
    /\ UNCHANGED <<ctxDone, nread, initialized, registry, offLoop, sinceCancel, writer, req, heap, pending, ran,
                   inIds, handed, wfail>>

\* The request Decode stores for the JSON value v, and the storage of its
\* identifier: the decoder allocates it afresh for every request.
RequestOf(v) ==
    [JSONRPC |-> DecodeRequest(v).JSONRPC,
     ID      |-> IF DecodeRequest(v).IDLit = JAbsent THEN NilPtr ELSE "a1",
     Method  |-> DecodeRequest(v).Method,
     Params  |-> DecodeRequest(v).Params]
HeapOf(v) ==
    IF DecodeRequest(v).IDLit = JAbsent THEN EmptyHeap
    ELSE [EmptyHeap EXCEPT !["a1"] = DecodeRequest(v).IDLit]

\* A Run that hands the request to a goroutine and reads on: what was built
\* waits while the next message is decoded.
HandledInBackground(v, o) ==
    /\ req' = RequestOf(v)
    /\ heap' = o.heap
    /\ pending' = pending \o o.resps
    /\ initialized' = o.initialized
    /\ ran' = o.ran
    /\ wire' = v
    /\ inIds' = IF RequestOf(v).ID = NilPtr THEN inIds ELSE Append(inIds, DecodeRequest(v).IDLit)
    /\ nread' = nread + 1
    /\ lastDecode' = "ok"
    /\ pc' = "poll"
    /\ sinceCancel' = IF ctxDone THEN sinceCancel + 1 ELSE sinceCancel
    /\ UNCHANGED <<runErr, ctxDone, registry, offLoop, writer, handed, wfail>>

\* A tools/call that unregisters the tool it has called.
RegistryAfterCallRemoves(o, ts, order) ==
    [index |-> [n \in Names(ts) \ {o.ran.tool} |-> ts[n]],
     order |-> SelectSeq(order, LAMBDA n : n # o.ran.tool)]

\* s.tools and s.toolOrder once a request is handled with outcome o: Run,
\* dispatch, respondWithError and the four handlers only read them.
RegistryAfter(o, ts, order) == [index |-> ts, order |-> order]

\* The state once the request decoded from v is handled with outcome o and
\* Run is about to write what was built.
Handled(v, o) ==
    /\ req' = RequestOf(v)
    /\ heap' = o.heap
    /\ pending' = o.resps
    /\ initialized' = o.initialized
    /\ ran' = o.ran
    /\ tools' = RegistryAfter(o, tools, toolOrder).index
    /\ toolOrder' = RegistryAfter(o, tools, toolOrder).order
    /\ wire' = v
    /\ inIds' = IF RequestOf(v).ID = NilPtr THEN inIds ELSE Append(inIds, DecodeRequest(v).IDLit)
    /\ nread' = nread + 1
    /\ lastDecode' = "ok"
    /\ pc' = "respond"
    /\ sinceCancel' = IF ctxDone THEN sinceCancel + 1 ELSE sinceCancel
    /\ UNCHANGED <<runErr, ctxDone, offLoop, writer, handed, wfail>>

\* Decode delivers a request out of items: the version check, then dispatch
\* or respondWithError up to the call of writeResponse.
HandleFrom(items) ==
    /\ pc = "decode"
    /\ nread < MaxMsgs
    /\ \E item \in items : \E env \in EnvsFor(item) :
        /\ DecodeResult(item) = "ok"
        /\ Handled(item.v, RunBody(RequestOf(item.v), HeapOf(item.v), initialized,
                                   tools, toolOrder, ctxDone, env))

Handle == HandleFrom(StreamItems)

\* Nothing to write (a notification, or an error dropped): next iteration.
Continue ==
    /\ pc = "respond"
    /\ pending = <<>>
    /\ pc' = "poll"
    /\ EndIteration
    /\ UNCHANGED <<runErr, ctxDone, nread, pending, initialized, registry, offLoop, sinceCancel, writer, lastDecode, inIds, handed, wfail>>

\* writeResponse on the response built, on a sink that accepts the Write
\* of Flush (sinkOK) or refuses it, and the return to the loop.
WriteResponseTo(sinkOK) ==
    /\ pc = "respond"
    /\ pending # <<>>
    /\ LET w == WriteResponseResult(Head(pending), heap, wbuf, werr, encErr, out, sinkOK) IN
        /\ wbuf' = w.wbuf
        /\ werr' = w.werr
        /\ encErr' = w.encErr
        /\ out' = w.out
        /\ wfail' = (wfail \/ w.failed)
        /\ handed' = Append(handed, [reqId |-> WireId, id |-> Encode(Head(pending), heap).id])
        /\ pending' = Tail(pending)
        /\ IF Tail(pending) # <<>>
           THEN UNCHANGED <<pc, runErr, req, heap, wire, ran>>
           ELSE /\ EndIteration
                /\ pc' = AfterWrite(w.failed)
                /\ runErr' = IF AfterWrite(w.failed) = "done" THEN "write response" ELSE runErr
    /\ UNCHANGED <<ctxDone, nread, initialized, registry, sinceCancel, lastDecode, inIds>>

WriteResponse ==
    /\ \E sinkOK \in BOOLEAN : WriteResponseTo(sinkOK)
    /\ UNCHANGED offLoop

(***************************************************************************)
(* The environment.                                                        *)
(***************************************************************************)
\* Whoever holds the cancel function of ctx calls it.
Cancel ==
    /\ pc # "done"
    /\ ~ctxDone
    /\ ctxDone' = TRUE
    /\ UNCHANGED <<pc, runErr, nread, initialized, registry, offLoop, sinceCancel, writer, iteration, lastDecode, inIds, handed, wfail>>

\* The bytes of the request's identifier are overwritten while the response
\* that answers it waits to be written.
MutateRequestID ==
    /\ pc = "respond"
    /\ pending # <<>>
    /\ req.ID # NilPtr
    /\ heap[req.ID] # JStr("overwritten")
    /\ heap' = [heap EXCEPT ![req.ID] = JStr("overwritten")]
    /\ UNCHANGED <<pc, runErr, ctxDone, nread, req, pending, initialized, registry, offLoop, sinceCancel, writer,
                   wire, lastDecode, inIds, handed, wfail, ran>>

Next ==
    \/ Poll
    \/ DecodeEOF
    \/ DecodeError
    \/ Handle
    \/ Continue
    \/ WriteResponse
    \/ Cancel
    \/ MutateRequestID

Spec == Init /\ [][Next]_vars

(***************************************************************************)
(* Run on a finite stream of well-formed envelopes of the supported        *)
(* version, with a context that is never cancelled (context.Background(),  *)
(* as main passes).  Run is one goroutine: it keeps taking its next step,  *)
(* Decode returns once a value or the end of the stream is there, and the  *)
(* handlers and the sink return.                                           *)
(***************************************************************************)
WellFormedItems ==
    {Item("eof", JNull)}
    \cup {Item("value", Envelope(JStr(JSONRPCVersion), i, JStr(c[1]), c[2])) : i \in Ids, c \in Calls}

HandleWellFormed == HandleFrom(WellFormedItems)

NextFinite ==
    \/ Poll
    \/ DecodeEOF
    \/ HandleWellFormed
    \/ Continue
    \/ WriteResponse

FiniteInputSpec == Init /\ [][NextFinite]_vars /\ WF_vars(NextFinite)

(***************************************************************************)
(* dispatch and respondWithError on their own: the method handler is any   *)
(* MethodHandler, returning any pair of a result and an error, and the     *)
(* error handed to respondWithError is any error.                          *)
(***************************************************************************)
HandlerReturns ==
    {HandlerOut(res, err, FALSE, "") :
        res \in {NilResult, EmptyStruct, CallToolResult(Slice(<<>>)),
                 [kind |-> "PingResult", Status |-> "ok", Message |-> ""]},
        err \in {NilErr, NewError(CodeInternalError, "boom"), NewToolError("failed")}}

DispatchAny ==
    /\ pc = "decode"
    /\ nread < MaxMsgs
    /\ \E i \in Ids, ret \in HandlerReturns :
        LET v == Envelope(JStr(JSONRPCVersion), i, JStr("ping"), JAbsent) IN
        Handled(v, AfterHandler(RequestOf(v), [ret EXCEPT !.initialized = initialized], HeapOf(v)))

RespondAny ==
    /\ pc = "decode"
    /\ nread < MaxMsgs
    /\ \E i \in Ids, code \in {CodeParseError, CodeInvalidRequest, CodeMethodNotFound} :
        LET v == Envelope(JStr(JSONRPCVersion), i, JStr("ping"), JAbsent) IN
        Handled(v, RespondWithError(RequestOf(v), NewError(code, "rejected"), HeapOf(v), initialized))

NextDispatch ==
    \/ Poll
    \/ DecodeEOF
    \/ DispatchAny
    \/ RespondAny
    \/ Continue
    \/ WriteResponse

DispatchSpec == Init /\ [][NextDispatch]_vars

(***************************************************************************)
(* writeResponse called by several goroutines at once on one Server.  An   *)
(* encoded envelope reaches the bufio.Writer in two halves, so that what   *)
(* one caller writes can be told apart from what another writes in the     *)
(* middle of it.  A Flush that fails may have passed a part of the buffer  *)
(* to the sink.                                                            *)
(***************************************************************************)
\* A Lock that does not wait.
MutexIgnored(m) == TRUE

\* sync.Mutex.Lock returns once the mutex is free.
MutexFree(m) == m = NoHolder

Chunk(call, part) == [call |-> call, part |-> part]
At(w, at) == [wpc EXCEPT ![w] = [at |-> at, call |-> wpc[w].call]]
InCriticalSection(w) == wpc[w].at \in {"encode", "encode2", "flush", "unlock"}

\* A goroutine calls writeResponse and reaches Lock.
CallWriteResponse(w) ==
    /\ wpc[w].at = "idle"
    /\ Len(handed) < MaxWrites
    /\ handed' = Append(handed, [reqId |-> JStr(w), id |-> JStr(w)])
    /\ wpc' = [wpc EXCEPT ![w] = [at |-> "lock", call |-> Len(handed) + 1]]
    /\ UNCHANGED <<run, registry, iteration, packageRegistry, registrations, otherServers, writer, wfail, mutex>>

\* s.writerMutex.Lock().
Lock(w) ==
    /\ wpc[w].at = "lock"
    /\ MutexFree(mutex)
    /\ mutex' = w
    /\ wpc' = At(w, "encode")
    /\ UNCHANGED <<run, registry, iteration, packageRegistry, registrations, otherServers, writer, handed, wfail>>

\* s.encoder.Encode(resp): the sticky error of the encoder or of the
\* bufio.Writer fails the call; otherwise the first half of the envelope
\* goes into the buffer.
EncodeFirst(w) ==
    /\ wpc[w].at = "encode"
    /\ IF encErr \/ werr
       THEN /\ encErr' = TRUE
            /\ wfail' = TRUE
            /\ wpc' = At(w, "unlock")
            /\ UNCHANGED wbuf
       ELSE /\ wbuf' = Append(wbuf, Chunk(wpc[w].call, 1))
            /\ wpc' = At(w, "encode2")
            /\ UNCHANGED <<encErr, wfail>>
    /\ UNCHANGED <<run, registry, iteration, packageRegistry, registrations, otherServers, werr, out, handed, mutex>>

\* The second half of the envelope goes into the buffer.
EncodeSecond(w) ==
    /\ wpc[w].at = "encode2"
    /\ wbuf' = Append(wbuf, Chunk(wpc[w].call, 2))
    /\ wpc' = At(w, "flush")
    /\ UNCHANGED <<run, registry, iteration, packageRegistry, registrations, otherServers, werr, encErr, out, handed, wfail, mutex>>

\* s.writer.Flush(): the sink takes the first k chunks of the buffer; the
\* call succeeds when it takes them all.
Flush(w) ==
    /\ wpc[w].at = "flush"
    /\ IF werr
       THEN /\ wfail' = TRUE
            /\ UNCHANGED <<wbuf, werr, out>>
       ELSE \E k \in 0..Len(wbuf) :
            /\ out' = out \o SubSeq(wbuf, 1, k)
            /\ wbuf' = SubSeq(wbuf, k + 1, Len(wbuf))
            /\ werr' = (k < Len(wbuf))
            /\ wfail' = (wfail \/ k < Len(wbuf))
    /\ wpc' = At(w, "unlock")
    /\ UNCHANGED <<run, registry, iteration, packageRegistry, registrations, otherServers, encErr, handed, mutex>>

\* The deferred s.writerMutex.Unlock(), and the return of writeResponse.
Unlock(w) ==
    /\ wpc[w].at = "unlock"
    /\ mutex' = NoHolder
    /\ wpc' = [wpc EXCEPT ![w] = Idle]
    /\ UNCHANGED <<run, registry, iteration, packageRegistry, registrations, otherServers, writer, handed, wfail>>

NextWriters ==
    \/ \E w \in Writers : CallWriteResponse(w)
    \/ \E w \in Writers : Lock(w)
    \/ \E w \in Writers : EncodeFirst(w)
    \/ \E w \in Writers : EncodeSecond(w)
    \/ \E w \in Writers : Flush(w)
    \/ \E w \in Writers : Unlock(w)

WriterSpec == Init /\ [][NextWriters]_vars

(***************************************************************************)
(* The registries: tools.Register and tools.Registered on the package's,   *)
(* Server.RegisterTool and tools/list on the server's, called one after    *)
(* the other in any order once NewServer has returned.                     *)
(***************************************************************************)
\* What the callers pass to a registration call.
RegInputs ==
    { <<ToolDefinition("", "d1", "schema"), "h1">>,
      <<ToolDefinition("alpha", "d1", "schema"), NilHandler>>,
      <<ToolDefinition("alpha", "d1", NilSchema), "h1">>,
      <<ToolDefinition("alpha", "d2", "schema"), "h2">>,
      <<ToolDefinition("beta", "d1", "schema"), "h1">>,
      <<ToolDefinition("echo", "d1", "schema"), "h1">> }

\* The history of a registration call on target that returned r.
Registers(target, def, handler, r) ==
    /\ nreg' = nreg + 1
    /\ lastReg' = [target |-> target, def |-> def, handler |-> handler, err |-> r.err,
                   after |-> NewRegistration(def, handler).caller]
    /\ okRegs' = IF r.err = "" THEN [okRegs EXCEPT ![target] = Append(@, def)] ELSE okRegs
    /\ UNCHANGED <<listed, run, iteration, writer, handed, wfail, writers, otherServers>>

\* tools.Register(def, handler).
RegisterCall ==
    /\ nreg < MaxRegs
    /\ \E in \in RegInputs :
        LET r == Register(registryIndex, registryOrder, in[1], in[2]) IN
        /\ registryIndex' = r.index
        /\ registryOrder' = r.order
        /\ Registers("package", in[1], in[2], r)
    /\ UNCHANGED registry

\* s.RegisterTool(def, handler).
RegisterToolCall ==
    /\ nreg < MaxRegs
    /\ \E in \in RegInputs :
        LET r == RegisterTool(tools, toolOrder, in[1], in[2]) IN
        /\ tools' = r.index
        /\ toolOrder' = r.order
        /\ Registers("server", in[1], in[2], r)
    /\ UNCHANGED packageRegistry

\* The history of a listing of target that returned list.
Lists(target, list) ==
    /\ listed[target].n < MaxLists
    /\ listed' = [listed EXCEPT ![target] = [n |-> @.n + 1, at |-> nreg, list |-> list]]
    /\ UNCHANGED <<nreg, lastReg, okRegs, registry, packageRegistry, otherServers, run, iteration, writer,
                   handed, wfail, writers>>

\* tools.Registered().
RegisteredCall ==
    Lists("package", [i \in DOMAIN registryOrder |->
                        RegisteredList(registryIndex, registryOrder)[i].Definition])

\* A tools/list request reaches handleListTools.
ListToolsCall == Lists("server", HandleListTools(initialized, tools, toolOrder).result.Tools)

NextRegistry ==
    \/ RegisterCall
    \/ RegisterToolCall
    \/ RegisteredCall
    \/ ListToolsCall

RegistrySpec == Init /\ [][NextRegistry]_vars

(***************************************************************************)
(* The Server of package mcp.  It keeps its tools in the map Server.tools  *)
(* alone, and NewServer registers none.                                    *)
(***************************************************************************)
\* The result of Server.RegisterTool: the error text, the map it leaves,
\* and the definition the caller still holds.
McpRegResult(err, index, caller) == [err |-> err, index |-> index, caller |-> caller]

\* Server.RegisterTool of package mcp.
McpRegisterTool(ts, def, handler) ==
    IF def.Name = "" THEN McpRegResult("tool name is required", ts, def)
    ELSE IF handler = NilHandler THEN McpRegResult("tool handler for " \o def.Name \o " is nil", ts, def)
    ELSE IF def.Name \in DOMAIN ts THEN McpRegResult("tool " \o def.Name \o " already registered", ts, def)
    ELSE McpRegResult("", MapPut(ts, def.Name, Registration(Sanitized(def), handler)), def)

\* The orders in which a range statement may visit the keys of the map m:
\* Go leaves the iteration order of a map unspecified, and the runtime
\* varies it from one loop to the next.
MapRange(m) ==
    {keys \in [1..Cardinality(DOMAIN m) -> DOMAIN m] :
        \A i, j \in DOMAIN keys : keys[i] = keys[j] => i = j}

\* A tools/list that returns the first entry the range yields and stops.
McpHandleListToolsFirst(ts, keys) ==
    [kind |-> "ListToolsResult", Tools |-> [i \in DOMAIN keys \cap {1} |-> ts[keys[i]].Definition]]

\* Server.handleListTools of package mcp, when the range over s.tools
\* visits the keys in the order keys.
McpHandleListTools(ts, keys) ==
    [kind |-> "ListToolsResult", Tools |-> [i \in DOMAIN keys |-> ts[keys[i]].Definition]]

\* s.RegisterTool(def, handler) on the mcp Server.
McpRegisterToolCall ==
    /\ mcpLast.n < MaxRegs
    /\ \E in \in RegInputs :
        LET r == McpRegisterTool(mcpTools, in[1], in[2]) IN
        /\ mcpTools' = r.index
        /\ mcpRegs' = IF r.err = "" THEN Append(mcpRegs, in[1].Name) ELSE mcpRegs
        /\ mcpLast' = [n |-> mcpLast.n + 1, def |-> in[1], handler |-> in[2], err |-> r.err,
                       after |-> r.caller]
    /\ UNCHANGED <<mcpListed, run, registry, iteration, writer, handed, wfail, writers,
                   packageRegistry, registrations, lineServer, concurrent, sink, construction>>

\* A tools/list request reaches handleListTools of the mcp Server.
McpListToolsCall ==
    /\ mcpListed.n < MaxLists
    /\ \E keys \in MapRange(mcpTools) :
        mcpListed' = [n |-> mcpListed.n + 1, regs |-> mcpRegs,
                      list |-> McpHandleListTools(mcpTools, keys).Tools]
    /\ UNCHANGED <<mcpTools, mcpRegs, mcpLast, run, registry, iteration, writer, handed, wfail,
                   writers, packageRegistry, registrations, lineServer, concurrent, sink, construction>>

NextMcp ==
    \/ McpRegisterToolCall
    \/ McpListToolsCall

McpSpec == Init /\ [][NextMcp]_vars

\* Registrations with the package, with the Server and with the mcp Server.
NextNormalize ==
    \/ RegisterCall
    \/ RegisterToolCall
    \/ McpRegisterToolCall

NormalizeSpec == Init /\ [][NextNormalize]_vars

(***************************************************************************)
(* The line-scanning Server of src/mcp/router/server.go.  It reads its     *)
(* input line by line, decodes each line with json.Unmarshal into a        *)
(* Request whose id and params are interface{} values, and writes each     *)
(* response as one line.                                                   *)
(***************************************************************************)
\* The names of the six monitor tools InitializeTools registers.  Only the
\* CPU tool is in the sources; the names of the other five stand for what
\* their GetName methods return.
MonitorTools == {"cpu_info", "disk", "memory", "network", "process", "system"}
LineTool(name) == [name |-> name]

\* Server.InitializeTools.
InitializeTools(ts) == [n \in DOMAIN ts \cup MonitorTools |-> LineTool(n)]

\* encoding/json storing a number into an interface{} and encoding it
\* again: the number becomes a float64, written in its shortest form.
Float64Literal(s) == IF s = "1.0" THEN "1" ELSE s

\* encoding/json storing a value into an interface{} field: null and an
\* absent key leave the nil interface, a number becomes a float64.
InterfaceField(v) ==
    IF v.t \in {"absent", "null"} THEN JAbsent
    ELSE IF v.t = "num" THEN JNum(Float64Literal(v.s))
    ELSE v

\* json.Unmarshal of a line into the Request of the line-scanning Server.
LineRequest(v) ==
    IF v.t = "obj"
    THEN [JSONRPC |-> StringField(Member(v, "jsonrpc")),
          ID      |-> InterfaceField(Member(v, "id")),
          Method  |-> StringField(Member(v, "method")),
          Params  |-> InterfaceField(Member(v, "params"))]
    ELSE [JSONRPC |-> "", ID |-> JAbsent, Method |-> "", Params |-> JAbsent]

\* A response of the line-scanning Server, and the line json.Marshal makes
\* of it: omitempty drops a nil id, a nil result and a nil error.
LineResponse(id, result, err) == [JSONRPC |-> "2.0", ID |-> id, Result |-> result, Error |-> err]
LineEncode(resp) ==
    [jsonrpc   |-> resp.JSONRPC,
     id        |-> resp.ID,
     hasResult |-> resp.Result # NilResult,
     result    |-> resp.Result,
     hasError  |-> resp.Error # NilErr,
     error     |-> resp.Error]

\* Server.errorResponse.
ErrorResponse(r, code, message) == LineResponse(r.ID, NilResult, NewError(code, message))

\* Unmarshal of the params into CallToolParams{Name string; Arguments
\* map[string]interface{}}: unknown keys are skipped.
LineParamsOK(raw) ==
    /\ raw.t = "obj"
    /\ StringFieldOK(Member(raw, "name"))
    /\ Member(raw, "arguments").t \in {"absent", "null", "obj"}

\* MonitorTool.Execute: the text it returns, or its error.
LineEnvs == {"ok", "fail"}
Execute(tool, env) ==
    IF env = "ok" THEN [failed |-> FALSE, text |-> "report of " \o tool.name]
    ELSE [failed |-> TRUE, text |-> tool.name \o " failed"]

\* The mark handleCallTool puts before the text of a tool's error (U+274C).
CrossMark == "X "
LineCallToolResult(text, isError) ==
    [kind |-> "CallToolResult", Content |-> <<TextContent(text)>>, IsError |-> isError]

\* A registry miss answered as the router of part_002 answers it.
UnknownToolAsApplicationError(r, name) ==
    ErrorResponse(r, CodeApplicationError, "tool " \o Quote(name) \o " not registered")

\* The response of handleCallTool to a name that is not in s.tools.
UnknownTool(r, name) == ErrorResponse(r, -32602, "Unknown tool: " \o name)

\* Server.handleCallTool of the line-scanning Server.
LineHandleCallTool(ts, r, env) ==
    IF r.Params # JAbsent /\ ~LineParamsOK(r.Params)
    THEN ErrorResponse(r, -32602, "Invalid params: json: cannot unmarshal")
    ELSE LET name == IF r.Params = JAbsent THEN "" ELSE StringField(Member(r.Params, "name")) IN
         IF name \notin DOMAIN ts THEN UnknownTool(r, name)
         ELSE LET t == Execute(ts[name], env) IN
              IF t.failed THEN LineResponse(r.ID, LineCallToolResult(CrossMark \o t.text, TRUE), NilErr)
              ELSE LineResponse(r.ID, LineCallToolResult(t.text, FALSE), NilErr)

\* Server.handleInitialize and Server.handleListTools of the line-scanning
\* Server.  The list is built by a range over the map; its order is left
\* out here, the result holds the set of the names listed.
LineHandleInitialize(r) ==
    LineResponse(r.ID, [kind |-> "InitializeResult", ProtocolVersion |-> "2024-11-05",
                        ServerInfo |-> ServerInfo], NilErr)
LineHandleListTools(ts, r) ==
    LineResponse(r.ID, [kind |-> "tools", Tools |-> DOMAIN ts], NilErr)

\* Server.handleRequest.
HandleRequest(ts, r, env) ==
    CASE r.Method = "initialize" -> LineHandleInitialize(r)
      [] r.Method = "tools/list" -> LineHandleListTools(ts, r)
      [] r.Method = "tools/call" -> LineHandleCallTool(ts, r, env)
      [] OTHER                   -> ErrorResponse(r, -32601, "Method not found: " \o r.Method)

\* What one iteration of dispatch writes for the line `item`: nothing for
\* an empty line; for a line Unmarshal rejects, a parse error when the
\* line is an object with an id key; otherwise the response of
\* handleRequest unless the request is a notification.
LineIteration(ts, item, env) ==
    IF item.k = "empty" THEN <<>>
    ELSE IF item.k = "syntax" THEN <<>>
    ELSE IF ~DecodeOK(item.v)
    THEN IF item.v.t = "obj" /\ "id" \in Keys(item.v)
         THEN <<LineResponse(InterfaceField(Member(item.v, "id")), NilResult,
                             NewError(-32700, "Parse error: json: cannot unmarshal"))>>
         ELSE <<>>
    ELSE IF LineRequest(item.v).ID = JAbsent THEN <<>>
    ELSE <<HandleRequest(ts, LineRequest(item.v), env)>>

\* The lines of the input.
LineIds == {JAbsent, JNull, JNum("1"), JNum("1.0"), JStr("a")}
LineCalls ==
    { <<"initialize", JAbsent>>,
      <<"tools/list", JAbsent>>,
      <<"tools/call", JAbsent>>,
      <<"tools/call", JNull>>,
      <<"tools/call", JObj({})>>,
      <<"tools/call", JArr>>,
      <<"tools/call", JObj({<<"name", JNum("7")>>})>>,
      <<"tools/call", JObj({<<"name", JStr("nope")>>})>>,
      <<"tools/call", JObj({<<"name", JStr("cpu_info")>>})>>,
      <<"tools/call", JObj({<<"name", JStr("cpu_info")>>, <<"bogus", JNull>>})>>,
      <<"anything", JAbsent>> }
Lines ==
    {Item("empty", JAbsent), Item("syntax", JAbsent), Item("value", JNull), Item("value", JArr),
     Item("value", Envelope(JStr("2.0"), JStr("a"), JNum("7"), JAbsent))}
    \cup {Item("value", Envelope(JStr("2.0"), i, JStr(c[1]), c[2])) : i \in LineIds, c \in LineCalls}
LineEnvsFor(item) ==
    IF StringField(Member(Member(item.v, "params"), "name")) \in MonitorTools THEN LineEnvs ELSE {"ok"}

\* Server.Run up to the call of dispatch; a second call returns an error.
LineRun ==
    /\ linePc \in {"new", "done"}
    /\ lineRet # "already running"
    /\ IF lineInitialized
       THEN /\ linePc' = "done"
            /\ lineRet' = "already running"
            /\ UNCHANGED <<lineInitialized, lineTools>>
       ELSE /\ linePc' = "scan"
            /\ lineRet' = ""
            /\ lineInitialized' = TRUE
            /\ lineTools' = InitializeTools(lineTools)
    /\ UNCHANGED <<lineRead, lineOut, lineWire, run, registry, iteration, writer, handed, wfail,
                   writers, packageRegistry, registrations, mcpServer, concurrent, sink, construction>>

\* scanner.Scan() delivers a line: one iteration of the loop of dispatch.
LineScan ==
    /\ linePc = "scan"
    /\ lineRead < MaxMsgs
    /\ \E item \in Lines : \E env \in LineEnvsFor(item) :
        /\ lineWire' = item
        /\ lineOut' = lineOut \o [i \in DOMAIN LineIteration(lineTools, item, env) |->
                                     LineEncode(LineIteration(lineTools, item, env)[i])]
    /\ lineRead' = lineRead + 1
    /\ UNCHANGED <<linePc, lineRet, lineInitialized, lineTools, run, registry, iteration, writer,
                   handed, wfail, writers, packageRegistry, registrations, mcpServer, concurrent, sink, construction>>

\* scanner.Scan() returns false: at the end of the input dispatch returns
\* nil, after a read error or a line too long it returns the error.
LineEnd ==
    /\ linePc = "scan"
    /\ linePc' = "done"
    /\ \E ret \in {"nil", "scan error"} : lineRet' = ret
    /\ UNCHANGED <<lineInitialized, lineTools, lineRead, lineOut, lineWire, run, registry, iteration,
                   writer, handed, wfail, writers, packageRegistry, registrations, mcpServer, concurrent, sink, construction>>

NextLine ==
    \/ LineRun
    \/ LineScan
    \/ LineEnd

LineSpec == Init /\ [][NextLine]_vars

(***************************************************************************)
(* The package registry under concurrent use.  Goroutines call             *)
(* tools.Register and tools.Registered; each statement that reads or       *)
(* writes registryIndex or registryOrder is a step of its own.             *)
(***************************************************************************)
\* A registryMu that lets every caller in.
CanLockAlways(mu) == TRUE

\* registryMu.Lock() returns when no goroutine holds the mutex, to write or
\* to read; registryMu.RLock() returns when none holds it to write.
CanLock(mu) == mu.writer = NoHolder /\ mu.readers = {}
CanRLock(mu) == mu.writer = NoHolder

\* What the steps of a goroutine leave alone besides its own variables.
OutsideRegistry ==
    UNCHANGED <<run, registry, iteration, writer, handed, wfail, writers, registrations,
                mcpServer, lineServer, sink, construction>>

\* A goroutine calls tools.Register(def, handler).
GoRegister(g) ==
    /\ regPc[g].at = "idle"
    /\ \E in \in RegInputs :
        regPc' = [regPc EXCEPT ![g] = [RegIdle EXCEPT !.at = "new", !.def = in[1], !.handler = in[2]]]
    /\ UNCHANGED <<packageRegistry, readPc, registryMu, snaps>>
    /\ OutsideRegistry

\* registration, err := NewRegistration(def, handler), and the return when
\* it fails.
GoNewRegistration(g) ==
    /\ regPc[g].at = "new"
    /\ LET r == NewRegistration(regPc[g].def, regPc[g].handler) IN
        regPc' = [regPc EXCEPT ![g] = IF r.err # "" THEN [@ EXCEPT !.at = "done", !.err = r.err]
                                       ELSE [@ EXCEPT !.at = "lock", !.reg = r.reg]]
    /\ UNCHANGED <<packageRegistry, readPc, registryMu, snaps>>
    /\ OutsideRegistry

\* registryMu.Lock().
GoLock(g) ==
    /\ regPc[g].at = "lock"
    /\ CanLock(registryMu)
    /\ registryMu' = [registryMu EXCEPT !.writer = g]
    /\ regPc' = [regPc EXCEPT ![g].at = "check"]
    /\ UNCHANGED <<packageRegistry, readPc, snaps>>
    /\ OutsideRegistry

\* The lookup of the name in registryIndex.
GoCheck(g) ==
    /\ regPc[g].at = "check"
    /\ LET name == regPc[g].reg.Definition.Name IN
        regPc' = [regPc EXCEPT ![g] =
                     IF name \in DOMAIN registryIndex
                     THEN [@ EXCEPT !.at = "unlock", !.err = "tool " \o name \o " exists"]
                     ELSE [@ EXCEPT !.at = "store"]]
    /\ UNCHANGED <<packageRegistry, readPc, registryMu, snaps>>
    /\ OutsideRegistry

\* registryIndex[name] = registration.
GoStore(g) ==
    /\ regPc[g].at = "store"
    /\ registryIndex' = MapPut(registryIndex, regPc[g].reg.Definition.Name, regPc[g].reg)
    /\ regPc' = [regPc EXCEPT ![g].at = "append"]
    /\ UNCHANGED <<registryOrder, readPc, registryMu, snaps>>
    /\ OutsideRegistry

\* registryOrder = append(registryOrder, name).
GoAppend(g) ==
    /\ regPc[g].at = "append"
    /\ registryOrder' = Append(registryOrder, regPc[g].reg.Definition.Name)
    /\ regPc' = [regPc EXCEPT ![g].at = "unlock"]
    /\ UNCHANGED <<registryIndex, readPc, registryMu, snaps>>
    /\ OutsideRegistry

\* The deferred registryMu.Unlock(), and the return of Register.
GoUnlock(g) ==
    /\ regPc[g].at = "unlock"
    /\ registryMu' = [registryMu EXCEPT !.writer = NoHolder]
    /\ regPc' = [regPc EXCEPT ![g].at = "done"]
    /\ UNCHANGED <<packageRegistry, readPc, snaps>>
    /\ OutsideRegistry

\* A goroutine calls tools.Registered().
GoRegistered(g) ==
    /\ readPc[g].at = "idle"
    /\ readPc[g].n < MaxLists
    /\ readPc' = [readPc EXCEPT ![g].at = "rlock"]
    /\ UNCHANGED <<packageRegistry, regPc, registryMu, snaps>>
    /\ OutsideRegistry

\* registryMu.RLock().
GoRLock(g) ==
    /\ readPc[g].at = "rlock"
    /\ CanRLock(registryMu)
    /\ registryMu' = [registryMu EXCEPT !.readers = @ \cup {g}]
    /\ readPc' = [readPc EXCEPT ![g].at = "range"]
    /\ UNCHANGED <<packageRegistry, regPc, snaps>>
    /\ OutsideRegistry

\* make(...) and the start of the range over registryOrder: the loop
\* works on the slice as it is now.
GoRange(g) ==
    /\ readPc[g].at = "range"
    /\ readPc' = [readPc EXCEPT ![g] = [@ EXCEPT !.at = "copy", !.order = registryOrder, !.result = <<>>]]
    /\ UNCHANGED <<packageRegistry, regPc, registryMu, snaps>>
    /\ OutsideRegistry

\* One turn of the loop: result = append(result, registryIndex[name]); a
\* name the map does not hold yields the zero Registration.
GoCopy(g) ==
    /\ readPc[g].at = "copy"
    /\ Len(readPc[g].result) < Len(readPc[g].order)
    /\ LET name == readPc[g].order[Len(readPc[g].result) + 1] IN
        readPc' = [readPc EXCEPT ![g].result =
                      Append(@, IF name \in DOMAIN registryIndex THEN registryIndex[name]
                                ELSE ZeroRegistration)]
    /\ UNCHANGED <<packageRegistry, regPc, registryMu, snaps>>
    /\ OutsideRegistry

\* The end of the loop, the deferred registryMu.RUnlock() and the return.
GoRUnlock(g) ==
    /\ readPc[g].at = "copy"
    /\ Len(readPc[g].result) = Len(readPc[g].order)
    /\ registryMu' = [registryMu EXCEPT !.readers = @ \ {g}]
    /\ snaps' = Append(snaps, readPc[g].result)
    /\ readPc' = [readPc EXCEPT ![g] = [ReadIdle EXCEPT !.n = readPc[g].n + 1]]
    /\ UNCHANGED <<packageRegistry, regPc>>
    /\ OutsideRegistry

NextConcurrent ==
    \/ \E g \in Registrars :
        \/ GoRegister(g)
        \/ GoNewRegistration(g)
        \/ GoLock(g)
        \/ GoCheck(g)
        \/ GoStore(g)
        \/ GoAppend(g)
        \/ GoUnlock(g)
    \/ \E g \in Readers :
        \/ GoRegistered(g)
        \/ GoRLock(g)
        \/ GoRange(g)
        \/ GoCopy(g)
        \/ GoRUnlock(g)

ConcurrentSpec == Init /\ [][NextConcurrent]_vars

(***************************************************************************)
(* tools/call.  The program that embeds the server may register a tool of  *)
(* its own before it calls Run; the requests are tools/call envelopes of   *)
(* the supported version.                                                  *)
(***************************************************************************)
StubDefinition == ToolDefinition("stub", "A tool of the embedding program.", NilSchema)

\* s.RegisterTool of the stub, before Run reads anything.
RegisterStub ==
    /\ pc = "poll"
    /\ nread = 0
    /\ nreg = 0
    /\ LET r == RegisterTool(tools, toolOrder, StubDefinition, "stub") IN
        /\ tools' = r.index
        /\ toolOrder' = r.order
        /\ Registers("server", StubDefinition, "stub", r)
    /\ UNCHANGED packageRegistry

ToolCallParams ==
    { JAbsent, JNull, JArr, JObj({}),
      JObj({<<"name", JStr("")>>}),
      JObj({<<"name", JNull>>}),
      JObj({<<"arguments", JObj({<<"message", JStr("hello")>>})>>}),
      JObj({<<"name", JStr("nope")>>}),
      JObj({<<"name", JStr("stub")>>}),
      JObj({<<"name", JStr("stub")>>, <<"extra", JNull>>}),
      JObj({<<"name", JStr("echo")>>, <<"arguments", JObj({<<"message", JStr("hello")>>})>>}),
      JObj({<<"name", JStr("echo")>>}),
      JObj({<<"name", JStr("cpu_status")>>}) }

ToolCallItems ==
    {Item("eof", JNull)}
    \cup {Item("value", Envelope(JStr(JSONRPCVersion), i, JStr("tools/call"), params)) :
            i \in {JAbsent, JNum("1")}, params \in ToolCallParams}

HandleToolCall == HandleFrom(ToolCallItems)

NextToolCall ==
    \/ RegisterStub
    \/ Poll
    \/ DecodeEOF
    \/ HandleToolCall
    \/ Continue
    \/ WriteResponse

ToolCallSpec == Init /\ [][NextToolCall]_vars

(***************************************************************************)
(* Strict params.  Requests of the three methods that take params, with    *)
(* params their structure knows, with a key it does not know, and with     *)
(* both.                                                                   *)
(***************************************************************************)
StrictCalls ==
    { <<"initialize", JObj({<<"protocolVersion", JStr(ProtocolVersion)>>})>>,
      <<"initialize", JObj({<<"bogus", JStr("x")>>})>>,
      <<"initialize", JObj({<<"protocolVersion", JStr(ProtocolVersion)>>, <<"bogus", JStr("x")>>})>>,
      <<"initialize", JObj({<<"clientInfo", JObj({<<"name", JStr("c")>>})>>})>>,
      <<"initialize", JObj({<<"clientInfo", JObj({<<"name", JStr("c")>>, <<"extra", JStr("x")>>})>>})>>,
      <<"ping", JObj({<<"message", JStr("hi")>>})>>,
      <<"ping", JObj({<<"bogus", JStr("x")>>})>>,
      <<"ping", JObj({<<"message", JStr("hi")>>, <<"bogus", JNull>>})>>,
      <<"tools/call", JObj({<<"name", JStr("echo")>>, <<"arguments", JObj({<<"message", JStr("hello")>>})>>})>>,
      <<"tools/call", JObj({<<"name", JStr("echo")>>, <<"arguments", JObj({<<"message", JStr("hello")>>})>>,
                            <<"bogus", JStr("x")>>})>>,
      <<"tools/call", JObj({<<"name", JStr("cpu_status")>>, <<"args", JNull>>})>>,
      <<"tools/call", JObj({<<"bogus", JStr("x")>>})>> }

StrictItems ==
    {Item("eof", JNull)}
    \cup {Item("value", Envelope(JStr(JSONRPCVersion), i, JStr(c[1]), c[2])) :
            i \in {JAbsent, JNum("1"), JStr("a")}, c \in StrictCalls}

HandleStrict == HandleFrom(StrictItems)

NextStrict ==
    \/ Poll
    \/ DecodeEOF
    \/ HandleStrict
    \/ Continue
    \/ WriteResponse

StrictParamsSpec == Init /\ [][NextStrict]_vars

(***************************************************************************)
(* Protocol tags.  Requests known and unknown to the handler table, with   *)
(* and without an id, under every protocol tag.                            *)
(***************************************************************************)
VersionItems ==
    {Item("eof", JNull)}
    \cup {Item("value", Envelope(t, i, JStr(c[1]), c[2])) : t \in Tags, i \in Ids, c \in TaggedCalls}

HandleTagged == HandleFrom(VersionItems)

NextVersion ==
    \/ Poll
    \/ DecodeEOF
    \/ HandleTagged
    \/ Continue
    \/ WriteResponse

VersionSpec == Init /\ [][NextVersion]_vars

(***************************************************************************)
(* The output sink.  The io.Writer behind the bufio.Writer of the Server   *)
(* refuses writes for a while and accepts them again, as its owner         *)
(* decides; the loop answers requests meanwhile.                           *)
(***************************************************************************)
\* writeResponse on the sink as it is now.
WriteToSink ==
    /\ WriteResponseTo(sinkUp)
    /\ sinkLog' = Append(sinkLog, sinkUp)
    /\ UNCHANGED <<sinkUp, packageRegistry, registrations, writers, mcpServer, lineServer, concurrent,
                   construction>>

\* The sink starts to refuse writes (a full disk, a stalled pipe).
SinkBreaks ==
    /\ sinkUp
    /\ sinkUp' = FALSE
    /\ UNCHANGED <<run, registry, iteration, writer, handed, wfail, packageRegistry, registrations,
                   writers, mcpServer, lineServer, concurrent, sinkLog, construction>>

\* The sink accepts writes again.
SinkRecovers ==
    /\ ~sinkUp
    /\ sinkUp' = TRUE
    /\ UNCHANGED <<run, registry, iteration, writer, handed, wfail, packageRegistry, registrations,
                   writers, mcpServer, lineServer, concurrent, sinkLog, construction>>

NextSink ==
    \/ Poll
    \/ DecodeEOF
    \/ HandleStrict
    \/ Continue
    \/ WriteToSink
    \/ SinkBreaks
    \/ SinkRecovers

SinkSpec == Init /\ [][NextSink]_vars

(***************************************************************************)
(* Construction.  main calls NewServer with its options, on whatever the   *)
(* package registry holds by then, and calls Run on the Server it gets.    *)
(***************************************************************************)
NotCalled == [called |-> FALSE, opts |-> <<>>, bound |-> <<>>, err |-> ""]

InitConstruction ==
    /\ InitOffLoop
    /\ pc = "main"
    /\ InitLoop
    /\ tools = EmptyMap
    /\ toolOrder = <<>>
    /\ srv = NotCalled

\* The options a caller passes to NewServer.
Options ==
    {WithLogger, WithServerInfo,
     WithTool(ToolDefinition("echo", "d1", "schema"), "h1"),
     WithTool(ToolDefinition("alpha", "d1", NilSchema), "h1"),
     WithTool(ToolDefinition("", "d1", "schema"), "h1")}
OptionLists == {<<>>, MainOptions} \cup {<<o>> : o \in Options} \cup {<<WithLogger, o>> : o \in Options}

\* The requests sent to the server built.
ListItems ==
    {Item("eof", JNull)}
    \cup {Item("value", Envelope(JStr(JSONRPCVersion), i, JStr("tools/list"), JAbsent)) : i \in {JAbsent, JNum("1")}}

\* server, err := router.NewServer(os.Stdin, os.Stdout, opts...).
NewServerCall ==
    /\ pc = "main"
    /\ \E opts \in OptionLists :
        LET regs == RegisteredList(registryIndex, registryOrder)
            r == NewServer(opts, regs) IN
        /\ tools' = r.index
        /\ toolOrder' = r.order
        /\ srv' = Built(opts, regs, r)
    /\ pc' = "built"
    /\ UNCHANGED <<runErr, ctxDone, nread, initialized, lastDecode, inIds, sinceCancel, iteration, writer,
                   handed, wfail, packageRegistry, registrations, writers, mcpServer, lineServer,
                   concurrent, sink>>

\* if err != nil { logger.Fatalf(...) }, else server.Run(ctx).
MainRuns ==
    /\ pc = "built"
    /\ pc' = IF srv.err # "" THEN "fatal" ELSE "poll"
    /\ UNCHANGED <<runErr, ctxDone, nread, initialized, lastDecode, inIds, sinceCancel, iteration, writer,
                   handed, wfail, registry, offLoop>>

HandleList == HandleFrom(ListItems)

NextConstruction ==
    \/ RegisterCall
    \/ NewServerCall
    \/ MainRuns
    \/ Poll
    \/ DecodeEOF
    \/ HandleList
    \/ Continue
    \/ WriteResponse

ConstructionSpec == InitConstruction /\ [][NextConstruction]_vars

(***************************************************************************)
(* Properties.                                                             *)
(***************************************************************************)
Envelopes == {out[i] : i \in DOMAIN out} \cup {wbuf[i] : i \in DOMAIN wbuf}
IsError(resp, code) == resp.Error # NilErr /\ resp.Error.Code = code /\ resp.Result = NilResult
HasCode(e, code) == e.hasError /\ e.error.Code = code

\* Run returns only when Decode met the end of the stream, when Decode
\* failed, or when the context was cancelled.
ReturnCauses ==
    /\ (pc = "done") = (runErr # "")
    /\ pc = "done" =>
        \/ runErr = "nil" /\ lastDecode = "eof"
        \/ runErr = "decode request" /\ lastDecode = "error"
        \/ runErr = "context canceled" /\ ctxDone

\* C1: every response handed to the writer carries, when it is encoded, the
\* id literal of the request it answers; while it waits to be written its id
\* lives in storage of its own, distinct from the request's, so that
\* overwriting the request's id does not reach it.
C1_ResponseIdIsOwnCopy ==
    /\ \A i \in DOMAIN handed : handed[i].id = handed[i].reqId
    /\ pc = "respond" =>
         \A j \in DOMAIN pending :
            /\ pending[j].ID # NilPtr
            /\ pending[j].ID # req.ID
            /\ heap[pending[j].ID] = WireId

\* C1 witness: the id of the second request was overwritten while its
\* response, which still carries the id, waits to be written; the first
\* request had another id.
C1_Witness ==
    /\ pc = "respond"
    /\ pending # <<>>
    /\ req.ID # NilPtr
    /\ heap[req.ID] = JStr("overwritten")
    /\ heap[Head(pending).ID] = WireId
    /\ Len(handed) = 1
    /\ handed[1].reqId # WireId

\* C2: an envelope without an id leaves nothing to write, whatever it made
\* the server do, and as long as no envelope with an id was decoded nothing
\* reaches the writer or the sink.
C2_NotificationsWriteNothing ==
    /\ pc = "respond" /\ WireId.t = "absent" => pending = <<>>
    /\ inIds = <<>> => out = <<>> /\ wbuf = <<>> /\ handed = <<>>

\* C2 witness: the second of two notifications ran a tool that failed, and
\* the output is still empty.
C2_Witness ==
    /\ pc = "respond"
    /\ nread = 2
    /\ WireId.t = "absent"
    /\ ran.tool = "echo"
    /\ ran.err # NilErr
    /\ inIds = <<>>
    /\ out = <<>>

\* C3: a decoded request that holds an id (Request.ID is not nil) leaves
\* exactly one response to write and one without an id leaves none; between
\* iterations the responses handed to the writer are as many as the decoded
\* requests with an id, and so are the envelopes on the sink when no write
\* failed.
C3_OneResponsePerRequest ==
    /\ pc = "respond" =>
         /\ Len(handed) + Len(pending) = Len(inIds)
         /\ Len(pending) = IF req.ID = NilPtr THEN 0 ELSE 1
    /\ pc # "respond" => Len(handed) = Len(inIds) /\ pending = <<>>
    /\ ~wfail => Len(out) = Len(handed) /\ wbuf = <<>>

\* C3 witness: Run is over, two envelopes were decoded, one of them with an
\* id, and one response is on the sink.
C3_Witness ==
    /\ pc = "done"
    /\ runErr = "nil"
    /\ nread = 2
    /\ Len(inIds) = 1
    /\ Len(out) = 1
    /\ ~wfail

\* C4: every envelope written has exactly one of result and error; the
\* response dispatch builds has the handler's error and no result when the
\* handler failed, and otherwise has a result and no error, the result being
\* the handler's, or the empty struct when the handler returned nil.
C4_ExactlyOneOfResultOrError ==
    /\ \A e \in Envelopes : e.hasResult # e.hasError
    /\ pc = "respond" =>
         \A j \in DOMAIN pending :
            LET e == Encode(pending[j], heap) IN
            /\ e.hasResult # e.hasError
            /\ ran.handler # "" /\ ran.err # NilErr =>
                 e.hasError /\ e.error = ran.err /\ ~e.hasResult
            /\ ran.handler # "" /\ ran.err = NilErr =>
                 /\ e.hasResult
                 /\ ~e.hasError
                 /\ e.result = IF ran.result = NilResult THEN EmptyStruct ELSE ran.result

\* C4 witness: an error response is on the sink and the handler of the
\* second request returned neither a result nor an error.
C4_Witness ==
    /\ pc = "respond"
    /\ pending # <<>>
    /\ ran.handler # ""
    /\ ran.result = NilResult
    /\ ran.err = NilErr
    /\ Encode(Head(pending), heap).result = EmptyStruct
    /\ Len(out) = 1
    /\ out[1].hasError

\* C5: an envelope whose jsonrpc member is a string other than "" and "2.0"
\* runs no handler and is answered with -32600 when it holds an id, and with
\* nothing otherwise; an envelope with the tag absent, empty or "2.0" is
\* never answered with -32600; Run does not return because of either.
C5_VersionMismatchRejected ==
    /\ ReturnCauses
    /\ pc = "respond" =>
         IF WireTag.t = "str" /\ WireTag.s \notin {"", "2.0"}
         THEN /\ ran = NoRun
              /\ IF req.ID = NilPtr THEN pending = <<>>
                 ELSE Len(pending) = 1 /\ IsError(pending[1], CodeInvalidRequest)
         ELSE \A j \in DOMAIN pending : ~IsError(pending[j], CodeInvalidRequest)

\* C5 witness: the first request was answered with -32600, and the second,
\* a tools/call, ran its tool and is being answered with a result.
C5_Witness ==
    /\ pc = "respond"
    /\ nread = 2
    /\ Len(out) = 1
    /\ HasCode(out[1], CodeInvalidRequest)
    /\ ran.tool = "echo"
    /\ pending # <<>>
    /\ Head(pending).Error = NilErr

\* C6: an envelope of an accepted version whose method is none of
\* initialize, ping, tools/list and tools/call runs no handler and is
\* answered with -32601 when it holds an id, and with nothing otherwise; one
\* of the four methods runs its handler and is never answered with -32601;
\* Run does not return because of either.
C6_UnknownMethodRejected ==
    /\ ReturnCauses
    /\ pc = "respond" /\ ~(WireTag.t = "str" /\ WireTag.s \notin {"", "2.0"}) =>
         IF StringField(Member(wire, "method")) \notin {"initialize", "ping", "tools/list", "tools/call"}
         THEN /\ ran = NoRun
              /\ IF req.ID = NilPtr THEN pending = <<>>
                 ELSE Len(pending) = 1 /\ IsError(pending[1], CodeMethodNotFound)
         ELSE /\ ran.handler = StringField(Member(wire, "method"))
              /\ \A j \in DOMAIN pending : ~IsError(pending[j], CodeMethodNotFound)

\* C6 witness: the first request was answered with -32601 and the second,
\* a ping, ran its handler.
C6_Witness ==
    /\ pc = "respond"
    /\ nread = 2
    /\ Len(out) = 1
    /\ HasCode(out[1], CodeMethodNotFound)
    /\ ran.handler = "ping"
    /\ pending # <<>>

\* C7: once Decode has failed, Run has returned the decode error, nothing is
\* left to write and every response handed to the writer answers an earlier
\* request; the step that fails writes nothing; and no step is taken after
\* Run has returned.
C7_DecodeFailureIsFatal ==
    /\ [](lastDecode = "error" =>
            /\ pc = "done"
            /\ runErr = "decode request"
            /\ pending = <<>>
            /\ Len(handed) = Len(inIds))
    /\ [][(lastDecode # "error" /\ lastDecode' = "error") =>
            UNCHANGED <<nread, initialized, out, wbuf, handed, inIds>>]_vars
    /\ [][pc # "done"]_vars

\* C7 witness: Decode failed after one request had been answered.
C7_Witness ==
    /\ pc = "done"
    /\ lastDecode = "error"
    /\ nread = 1
    /\ Len(out) = 1

\* C8: once Decode has met the end of the stream, Run has returned nil, and
\* every request decoded before has been handled to the end: nothing is left
\* to write, and each request with an id had its response handed to the
\* writer, and written when no write failed.  On a finite stream of
\* well-formed envelopes Run eventually returns nil.
C8_EndOfStreamEndsRun ==
    /\ [](lastDecode = "eof" =>
            /\ pc = "done"
            /\ runErr = "nil"
            /\ pending = <<>>
            /\ Len(handed) = Len(inIds)
            /\ (~wfail => Len(out) = Len(inIds)))
    /\ <>(pc = "done" /\ runErr = "nil" /\ lastDecode = "eof")

\* C8 witness: the stream ended after two requests, both answered.
C8_Witness ==
    /\ pc = "done"
    /\ lastDecode = "eof"
    /\ nread = 2
    /\ Len(out) = 2

\* C9: a step taken at the top of the loop with the context cancelled ends
\* Run with the cancellation error, decodes nothing and hands nothing to the
\* writer; Run returns the cancellation error in no other way.
C9_CancelledBeforeRead ==
    /\ [][(pc = "poll" /\ ctxDone) =>
            /\ pc' = "done"
            /\ runErr' = "context canceled"
            /\ UNCHANGED <<nread, lastDecode, initialized, pending, out, wbuf, handed, inIds>>]_vars
    /\ [][(runErr # "context canceled" /\ runErr' = "context canceled") => (pc = "poll" /\ ctxDone)]_vars

\* C9 witness: Run returned the cancellation error after one answered
\* request.
C9_Witness ==
    /\ pc = "done"
    /\ runErr = "context canceled"
    /\ nread = 1
    /\ Len(out) = 1

\* C10: a failed writeResponse is never a reason for Run to return: Run
\* returns only for the end of the stream, a decode failure or a
\* cancellation, and after a failed write it is still running until one of
\* these happens.
C10_WriteFailureOnlyLogged ==
    /\ ReturnCauses
    /\ wfail /\ pc # "done" => runErr = ""
    /\ wfail /\ pc = "poll" => pending = <<>> /\ req = NoRequest

\* C10 witness: the write of the first response failed, and the second
\* request was decoded and has run its handler.
C10_Witness ==
    /\ pc = "respond"
    /\ wfail
    /\ Len(handed) = 1
    /\ out = <<>>
    /\ nread = 2
    /\ ran.handler = "ping"

\* C11: of the goroutines calling writeResponse at most one is between Lock
\* and Unlock, and it is the one that holds the mutex; the mutex is held by
\* nobody else, so it is free whenever every call has returned, failed or
\* not; and on the output the two halves of every envelope are next to each
\* other, the output ending in a first half only while its caller is still
\* encoding.
C11_WriterMutexSerializes ==
    /\ \A w1, w2 \in Writers : InCriticalSection(w1) /\ InCriticalSection(w2) => w1 = w2
    /\ \A w \in Writers : InCriticalSection(w) <=> mutex = w
    /\ LET all == out \o wbuf IN
       \A i \in DOMAIN all :
          /\ all[i].part = 1 =>
                IF i < Len(all) THEN all[i + 1] = Chunk(all[i].call, 2)
                ELSE \E w \in Writers : wpc[w] = [at |-> "encode2", call |-> all[i].call]
          /\ all[i].part = 2 => i > 1 /\ all[i - 1] = Chunk(all[i].call, 1)

\* C11 witness: three calls made by two callers have returned, two whole
\* envelopes are on the output, one call failed, and the mutex is free.
C11_Witness ==
    /\ Len(handed) = 3
    /\ handed[1].id # handed[2].id
    /\ \A w \in Writers : wpc[w] = Idle
    /\ mutex = NoHolder
    /\ wfail
    /\ Len(out) >= 4

\* C12: the ids of the responses handed to the writer are, in order, the
\* ids of the decoded requests that hold one; when Decode is called nothing
\* waits to be written and every earlier request with an id has had its
\* response handed over; and while no write failed the ids on the sink are
\* the ids of the requests in input order.
C12_ResponsesInRequestOrder ==
    /\ Len(handed) <= Len(inIds)
    /\ \A i \in DOMAIN handed : handed[i].id = inIds[i]
    /\ pc = "decode" => pending = <<>> /\ Len(handed) = Len(inIds)
    /\ ~wfail => /\ Len(out) <= Len(inIds)
                 /\ \A i \in DOMAIN out : out[i].id = inIds[i]

\* C12 witness: two requests with different ids were decoded and their
\* responses are on the sink in the order of the requests.
C12_Witness ==
    /\ pc = "decode"
    /\ nread = 2
    /\ inIds = <<JNum("1"), JStr("a")>>
    /\ Len(out) = 2
    /\ out[1].id = JNum("1")
    /\ out[2].id = JStr("a")

\* The map and the order of a registry, and whether an order names every
\* key of a map once.
TargetIndex(t) == IF t = "server" THEN tools ELSE registryIndex
TargetOrder(t) == IF t = "server" THEN toolOrder ELSE registryOrder
OneEntryPerName(index, order) ==
    /\ {order[i] : i \in DOMAIN order} = DOMAIN index
    /\ \A i, j \in DOMAIN order : order[i] = order[j] => i = j
    /\ \A n \in DOMAIN index : index[n].Definition.Name = n
\* The definition a successful registration of def stores.
Stored(def) == [def EXCEPT !.InputSchema = IF @ = NilSchema THEN ObjectSchema ELSE @]

\* C13: a registration call, on the server or on the package, whose name
\* is already in the registry it addresses returns an error and leaves the
\* map and the order of both registries as they were, the registration
\* under that name included; and each registry always holds one entry per
\* name.
C13_DuplicateNameRejected ==
    /\ [](\A t \in Targets : OneEntryPerName(TargetIndex(t), TargetOrder(t)))
    /\ [][nreg' = nreg + 1 /\ lastReg'.def.Name \in DOMAIN TargetIndex(lastReg'.target) =>
            /\ lastReg'.err # ""
            /\ UNCHANGED <<tools, toolOrder, registryIndex, registryOrder>>]_vars

\* C13 witness: a second registration of alpha with the server, with
\* another description and another handler, has failed; the first is what
\* the registry holds.
C13_Witness ==
    /\ nreg = 2
    /\ lastReg.target = "server"
    /\ lastReg.err # ""
    /\ lastReg.def.Name = "alpha"
    /\ lastReg.handler # NilHandler
    /\ "alpha" \in DOMAIN tools
    /\ tools["alpha"].Definition.Description # lastReg.def.Description
    /\ tools["alpha"].Handler # lastReg.handler
    /\ toolOrder = <<"cpu_status", "echo", "alpha">>

\* C14: a registration call with an empty name or a nil handler returns an
\* error; a call that returns an error leaves the maps and the orders
\* unchanged; a call that returns none appends its name to the order of the
\* registry it addresses, stores its registration under the name, and
\* leaves the other registry alone.
C14_InvalidRegistrationRejected ==
    [][nreg' = nreg + 1 =>
        /\ (lastReg'.def.Name = "" \/ lastReg'.handler = NilHandler) => lastReg'.err # ""
        /\ lastReg'.err # "" => UNCHANGED <<tools, toolOrder, registryIndex, registryOrder>>
        /\ lastReg'.err = "" =>
            IF lastReg'.target = "server"
            THEN /\ toolOrder' = Append(toolOrder, lastReg'.def.Name)
                 /\ DOMAIN tools' = DOMAIN tools \cup {lastReg'.def.Name}
                 /\ tools'[lastReg'.def.Name] = Registration(Stored(lastReg'.def), lastReg'.handler)
                 /\ UNCHANGED <<registryIndex, registryOrder>>
            ELSE /\ registryOrder' = Append(registryOrder, lastReg'.def.Name)
                 /\ DOMAIN registryIndex' = DOMAIN registryIndex \cup {lastReg'.def.Name}
                 /\ registryIndex'[lastReg'.def.Name] = Registration(Stored(lastReg'.def), lastReg'.handler)
                 /\ UNCHANGED <<tools, toolOrder>>]_vars

\* C14 witness: after one successful registration with the server, a
\* registration with a nil handler has failed and the order has the one
\* name more.
C14_Witness ==
    /\ nreg = 2
    /\ lastReg.target = "server"
    /\ lastReg.handler = NilHandler
    /\ lastReg.def.Name # ""
    /\ lastReg.err # ""
    /\ toolOrder = <<"cpu_status", "echo", "beta">>
    /\ "alpha" \notin DOMAIN tools

\* C15: in every state, tools/list answers with the definitions stored by
\* the registrations that succeeded with the server, one for each, in the
\* order of these registrations, and tools.Registered does the same for the
\* package; a listing taken when no registration call was made since the
\* previous listing of the same registry equals it.
C15_ListInRegistrationOrder ==
    /\ [](/\ HandleListTools(initialized, tools, toolOrder).err = NilErr
          /\ HandleListTools(initialized, tools, toolOrder).result.Tools
                = [i \in DOMAIN okRegs["server"] |-> Stored(okRegs["server"][i])]
          /\ [i \in DOMAIN registryOrder |-> RegisteredList(registryIndex, registryOrder)[i].Definition]
                = [i \in DOMAIN okRegs["package"] |-> Stored(okRegs["package"][i])]
          /\ \A t \in Targets : listed[t].n > 0 =>
                \E k \in 0..Len(okRegs[t]) :
                    listed[t].list = [i \in 1..k |-> Stored(okRegs[t][i])])
    /\ [][\A t \in Targets :
            listed[t].n > 0 /\ listed'[t].n = listed[t].n + 1 /\ listed[t].at = nreg =>
                listed'[t].list = listed[t].list]_vars

\* C15 witness: beta, then alpha with no schema, were registered with the
\* server, and the second of two listings taken since has them in that
\* order after the tools bound by NewServer.
C15_Witness ==
    /\ nreg = 2
    /\ listed["server"].n = 2
    /\ listed["server"].at = 2
    /\ Len(listed["server"].list) = 4
    /\ listed["server"].list[1].Name = "cpu_status"
    /\ listed["server"].list[2].Name = "echo"
    /\ listed["server"].list[3].Name = "beta"
    /\ listed["server"].list[4] = ToolDefinition("alpha", "d1", ObjectSchema)

\* The params and the tool name of the tools/call request being answered.
WireParams == Member(wire, "params")
WireName == Member(WireParams, "name")
AnsweringToolCall == pc = "respond" /\ StringField(Member(wire, "method")) = "tools/call"
\* What is about to be written has the error of the handler and no result.
AnswersWith(code, message) ==
    /\ ran.result = NilResult
    /\ ran.err = [kind |-> "error", Code |-> code, Message |-> message, Data |-> "nil"]
    /\ IF req.ID = NilPtr THEN pending = <<>>
       ELSE /\ Len(pending) = 1
            /\ Encode(pending[1], heap).hasError
            /\ ~Encode(pending[1], heap).hasResult
            /\ Encode(pending[1], heap).error = ran.err

\* C16: a tools/call whose params decode and name a tool, with a name
\* that is not empty, which the registry does not hold, is answered with
\* the error -32001 whose message has the name in it, and runs no tool
\* handler.
C16_UnknownToolRejected ==
    AnsweringToolCall /\ DecodeParamsOK(WireParams, CallToolFields)
        /\ WireName.t = "str" /\ WireName.s # "" /\ WireName.s \notin DOMAIN tools =>
            /\ ran.tool = ""
            /\ AnswersWith(-32001, "tool \"" \o WireName.s \o "\" not registered")

\* C16 witness: stub is called on a server that does not have it and the
\* error, which names it, is about to be written.
C16_Witness ==
    /\ AnsweringToolCall
    /\ WireName = JStr("stub")
    /\ "stub" \notin DOMAIN tools
    /\ pending # <<>>
    /\ Head(pending).Error.Code = -32001
    /\ ran.tool = ""

\* C17: a tools/call whose params are absent or null, or are an object in
\* which name is absent, null or the empty string, is answered with an
\* error of code -32602 and no result, and runs no tool handler.
C17_MissingNameIsInvalidParams ==
    (/\ AnsweringToolCall
     /\ \/ WireParams.t \in {"absent", "null"}
        \/ WireParams.t = "obj" /\ (WireName.t \in {"absent", "null"} \/ WireName = JStr("")))
    => /\ ran.handler = "tools/call"
       /\ ran.tool = ""
       /\ ran.err # NilErr
       /\ AnswersWith(-32602, ran.err.Message)

\* C17 witness: the first request had no params and was answered with
\* -32602; the second has arguments and no name, and -32602 is about to
\* be written for it.
C17_Witness ==
    /\ AnsweringToolCall
    /\ nread = 2
    /\ Len(out) = 1
    /\ HasCode(out[1], -32602)
    /\ out[1].error.Message = "missing params"
    /\ WireParams.t = "obj"
    /\ "arguments" \in Keys(WireParams)
    /\ WireName.t = "absent"
    /\ pending # <<>>
    /\ Head(pending).Error.Code = -32602
    /\ Head(pending).Error.Message = "missing tool name"

\* C18: when the handler of a registered tool returns an error, tools/call
\* is answered with an error of code -32002 whose message is the text of
\* that error, with no result and no data, whatever else the tool handler
\* returned.
C18_ToolFailureIsToolError ==
    AnsweringToolCall /\ ran.tool # "" /\ ran.toolRet.failed =>
        /\ ran.tool \in DOMAIN tools
        /\ AnswersWith(-32002, ran.toolRet.text)

\* C18 witness: the echo tool has failed for want of arguments, and the
\* response to write has its text under -32002; before that the stub had
\* returned a result together with an error and was answered with -32002.
C18_Witness ==
    /\ AnsweringToolCall
    /\ nread = 2
    /\ Len(out) = 1
    /\ HasCode(out[1], -32002)
    /\ out[1].error.Message = "stub failed late"
    /\ ran.tool = "echo"
    /\ ran.toolRet.failed
    /\ pending # <<>>
    /\ Head(pending).Error = [kind |-> "error", Code |-> -32002, Message |-> "unexpected end of JSON input", Data |-> "nil"]

\* The tool handler called for the request being answered succeeded, and
\* whether it gave no content: a nil result, or a result whose content is
\* the nil slice or a slice of no items.
ToolSucceeded == AnsweringToolCall /\ ran.tool # "" /\ ~ran.toolRet.failed
NoContent(result) == result = NilResult \/ result.Content.items = <<>>
\* The response to write is a success whose result has a content list that
\* is there, not null, and empty.
ExplicitEmptyContent ==
    /\ ran.err = NilErr
    /\ ran.result = CallToolResult(Slice(<<>>))
    /\ req.ID # NilPtr =>
        /\ Len(pending) = 1
        /\ Encode(pending[1], heap).hasResult
        /\ ~Encode(pending[1], heap).hasError
        /\ Encode(pending[1], heap).result = CallToolResult(Slice(<<>>))

\* C19, as the code has it: a tool handler that succeeds with a nil result
\* is answered with a result whose content is an explicit empty list; one
\* that succeeds with a result of its own is answered with that result as
\* it is, and never with an error.
C19_NilResultBecomesEmptyList ==
    ToolSucceeded =>
        /\ ran.err = NilErr
        /\ ran.toolRet.result = NilResult => ExplicitEmptyContent
        /\ ran.toolRet.result # NilResult => ran.result = ran.toolRet.result

\* C19 witness: the stub returned a nil result and no error, and the
\* result to write has the empty content list.
C19_Witness ==
    /\ ToolSucceeded
    /\ ran.tool = "stub"
    /\ ran.toolRet.result = NilResult
    /\ pending # <<>>
    /\ Head(pending).Result = CallToolResult(Slice(<<>>))

\* C19, as the claim has it: whenever a tool handler succeeds with no
\* content, the response is a success whose result has an explicit empty
\* content list, not null and not absent.
C19_NoContentIsExplicitEmptyList ==
    ToolSucceeded /\ NoContent(ran.toolRet.result) => ExplicitEmptyContent

\* A step in which Run decodes an initialize request of an accepted
\* version, and whether the params of that request decode.
InitializeStep ==
    /\ pc = "decode"
    /\ pc' = "respond"
    /\ StringField(Member(wire', "method")) = "initialize"
    /\ StringField(Member(wire', "jsonrpc")) \in {"", "2.0"}
InitializeParamsDecode == DecodeParamsOK(Member(wire', "params"), InitializeFields)

\* C20: the flag is false after NewServer; a step changes it only from
\* false to true and only by handling an initialize request whose params
\* decode; an initialize request whose params do not decode is answered
\* with -32602 and leaves the flag as it was; one whose params decode
\* leaves the flag true and returns the same result whether or not the
\* flag was true before; and no step resets the flag.
C20_InitializedFlag ==
    /\ ~initialized
    /\ [][initialized' # initialized =>
            ~initialized /\ initialized' /\ InitializeStep /\ InitializeParamsDecode]_vars
    /\ [][InitializeStep /\ ~InitializeParamsDecode =>
            /\ initialized' = initialized
            /\ ran'.handler = "initialize"
            /\ ran'.result = NilResult
            /\ ran'.err # NilErr
            /\ ran'.err.Code = -32602]_vars
    /\ [][InitializeStep /\ InitializeParamsDecode =>
            /\ initialized'
            /\ ran'.handler = "initialize"
            /\ ran'.err = NilErr
            /\ ran'.result = [kind |-> "InitializeResult", ProtocolVersion |-> "2024-06-24",
                              ServerInfo |-> [Name |-> "go-mcp-server", Version |-> "dev"],
                              Tools |-> [List |-> TRUE, Call |-> TRUE]]]_vars
    /\ [][initialized => initialized']_vars

\* C20 witness: a first initialize was answered with its result and set
\* the flag; a second one, decoded with the flag set, has succeeded again.
C20_Witness ==
    /\ pc = "respond"
    /\ nread = 2
    /\ initialized
    /\ Len(out) = 1
    /\ out[1].hasResult
    /\ out[1].result.kind = "InitializeResult"
    /\ ran.handler = "initialize"
    /\ ran.err = NilErr
    /\ pending # <<>>
    /\ Head(pending).Result = out[1].result

\* The outcome of the iteration of Run that handles the request being
\* answered, had Server.initialized been init when it was decoded, the
\* context been done or not, and the operating system behaved as env.
IterationWith(init, done, env) ==
    RunBody(RequestOf(wire), HeapOf(wire), init, tools, toolOrder, done, env)
\* The envelopes an outcome leaves to write.
Written(o) == [i \in DOMAIN o.resps |-> Encode(o.resps[i], o.heap)]

\* C21: a ping, tools/list or tools/call request gets the response it
\* would get with the initialized flag the other way round: the iteration
\* that handled it is the one the model computes for the present flag, and
\* with the flag negated it builds the same envelopes, runs the same
\* handler and tool and returns the same result and error.
C21_NoInitializationGate ==
    pc = "respond" /\ StringField(Member(wire, "method")) \in {"ping", "tools/list", "tools/call"} =>
        \E done \in BOOLEAN, env \in EnvsFor(Item("value", wire)) :
            /\ IterationWith(initialized, done, env).resps = pending
            /\ IterationWith(initialized, done, env).ran = ran
            /\ Written(IterationWith(~initialized, done, env)) = Written(IterationWith(initialized, done, env))
            /\ IterationWith(~initialized, done, env).ran = ran

\* C21 witness: with no initialize handled, a tools/list was answered with
\* its list, and a tools/call has run the echo tool and has its result to
\* write.
C21_Witness ==
    /\ pc = "respond"
    /\ ~initialized
    /\ nread = 2
    /\ Len(out) = 1
    /\ out[1].hasResult
    /\ out[1].result.kind = "ListToolsResult"
    /\ ran.tool = "echo"
    /\ pending # <<>>
    /\ Head(pending).Result.kind = "CallToolResult"

\* The keys the parameter structure of a method declares, and whether the
\* params v of a request of that method carry a key outside them, at the
\* top or inside clientInfo.
KnownParams(method) ==
    CASE method = "initialize" -> {"clientInfo", "protocolVersion", "capabilities", "metadata"}
      [] method = "ping"       -> {"message"}
      [] method = "tools/call" -> {"name", "arguments"}
      [] OTHER                 -> {}
HasUnknownField(method, v) ==
    /\ method \in {"initialize", "ping", "tools/call"}
    /\ v.t = "obj"
    /\ \/ ~(Keys(v) \subseteq KnownParams(method))
       \/ /\ method = "initialize"
          /\ Member(v, "clientInfo").t = "obj"
          /\ ~(Keys(Member(v, "clientInfo")) \subseteq {"name", "version"})
\* The request being answered is one with an unknown field in its params.
StrictlyRejected == HasUnknownField(StringField(Member(wire, "method")), Member(wire, "params"))

\* C22: when an initialize, ping or tools/call request whose params carry
\* a field its parameter structure does not declare is handled, the flag
\* initialized keeps its value, no tool is called, the handler returns
\* error -32602 and no result, a request with an id gets exactly that
\* error as its response and a notification gets none; Run then goes on
\* to its next iteration and returns only for the end of the stream.
C22_UnknownFieldRejected ==
    /\ [][pc = "decode" /\ pc' = "respond" /\ StrictlyRejected' =>
            /\ initialized' = initialized
            /\ ran'.tool = ""
            /\ ran'.toolRet = NoToolReturn
            /\ ran'.result = NilResult
            /\ ran'.err # NilErr
            /\ ran'.err.Code = -32602
            /\ IF WireId'.t = "absent" THEN pending' = <<>>
               ELSE /\ Len(pending') = 1
                    /\ IsError(pending'[1], -32602)
                    /\ Encode(pending'[1], heap').id = WireId']_vars
    /\ [][pc = "respond" /\ StrictlyRejected => pc' \in {"respond", "poll"}]_vars
    /\ [](pc = "done" => runErr = "nil" /\ lastDecode = "eof")

\* C22 witness: a tools/call naming the echo tool with a valid message and
\* one unknown key was answered with -32602 while the server stayed
\* uninitialized, and Run has gone on to handle an initialize with an
\* unknown key, for which it has an error to write.
C22_Witness ==
    /\ pc = "respond"
    /\ nread = 2
    /\ ~initialized
    /\ Len(out) = 1
    /\ HasCode(out[1], -32602)
    /\ out[1].error.Message = "json: unknown field \"bogus\""
    /\ StringField(Member(wire, "method")) = "initialize"
    /\ StrictlyRejected
    /\ ran.handler = "initialize"
    /\ ran.tool = ""
    /\ pending # <<>>
    /\ IsError(Head(pending), -32602)

\* The one response built for the request being answered echoes its id.
EchoesWireId ==
    /\ Len(pending) = 1
    /\ Head(pending).ID # NilPtr
    /\ Encode(Head(pending), heap).id = WireId

\* C23: a request whose id is a number or a string is decoded with the
\* literal kept and is answered by one response that carries the same
\* literal; an id of null is decoded as the nil pointer, as an absent id
\* is, and the request is handled as a notification: nothing is built for
\* it.
C23_IdLiteralEchoed ==
    pc = "respond" =>
        /\ WireId.t \in {"num", "str"} =>
                req.ID # NilPtr /\ DecodeRequest(wire).IDLit = WireId /\ EchoesWireId
        /\ WireId.t \in {"null", "absent"} => req.ID = NilPtr /\ pending = <<>>

\* C23 witness: a ping with "id": null went through handlePing, and no
\* response was built for it.
C23_Witness ==
    /\ pc = "respond"
    /\ WireId = JNull
    /\ WireTag = JStr("2.0")
    /\ ran.handler = "ping"
    /\ ran.err = NilErr
    /\ req.ID = NilPtr
    /\ pending = <<>>

\* C23 as stated: a request that carries an id, be it a number, a string
\* or null, is answered by a response that echoes it.
C23_NumberStringOrNullEchoed ==
    pc = "respond" /\ WireId.t \in {"num", "str", "null"} => EchoesWireId

\* The JSON value v read from the stream is not a well-formed envelope: it
\* is not an object, or its method or its protocol tag is not a string.
NotAString(f) == f.t \notin {"absent", "str"}
MalformedEnvelope(v) ==
    /\ v.t # "absent"
    /\ \/ v.t # "obj"
       \/ NotAString(Member(v, "method"))
       \/ NotAString(Member(v, "jsonrpc"))

\* C24: a complete JSON value that is not a well-formed envelope ends Run.
\* When the value is an array or a string, or an object whose method or
\* protocol tag is a number, Decode fails: Run returns the decode error
\* at once, builds and writes nothing, with or without an id in the
\* message, and reads no further message.  Only the top-level value null
\* is recoverable: it is decoded as the empty request, which has no id,
\* and its method-not-found error is dropped.
C24_MalformedEnvelopeIsFatal ==
    /\ [](MalformedEnvelope(wire) /\ wire # JNull =>
            /\ pc = "done"
            /\ runErr = "decode request"
            /\ lastDecode = "error"
            /\ pending = <<>>
            /\ Len(handed) = Len(inIds))
    /\ [][MalformedEnvelope(wire') /\ wire' # wire /\ wire' # JNull =>
            UNCHANGED <<nread, out, wbuf, handed, inIds, initialized>>]_vars
    /\ [](wire = JNull =>
            /\ pc = "respond"
            /\ req = NoRequest
            /\ ran = NoRun
            /\ pending = <<>>)

\* C24 witness: after one request was answered, a message with id "a"
\* and the number 7 as its method has ended Run with the decode error, and
\* nothing was written for it.
C24_Witness ==
    /\ pc = "done"
    /\ runErr = "decode request"
    /\ wire = Envelope(JStr("2.0"), JStr("a"), JNum("7"), JAbsent)
    /\ nread = 1
    /\ Len(out) = 1
    /\ out[1].id # JStr("a")

\* C24 as stated: a malformed envelope does not end Run; Run answers it
\* with an error when it carries an id, and goes on.
C24_MalformedEnvelopeRecoverable ==
    MalformedEnvelope(wire) =>
        /\ pc # "done"
        /\ pc = "respond" /\ Member(wire, "id").t \in {"num", "str"} =>
                Len(pending) = 1 /\ Head(pending).Error # NilErr

\* C25: while Run processes messages the registry stays what NewServer
\* made of it: the names cpu_status and echo, each with the registration
\* the tools package holds for it, in that order; no step of Run, whatever
\* the message, adds, replaces, reorders or removes an entry.
C25_RegistryReadOnly ==
    /\ Names(tools) = {"cpu_status", "echo"}
    /\ tools["cpu_status"] = CPUTool
    /\ tools["echo"] = EchoTool
    /\ toolOrder = <<"cpu_status", "echo">>

\* C25 witness: a tools/call has run the echo tool and was answered, and
\* the tools/list that follows it lists both tools.
C25_Witness ==
    /\ pc = "respond"
    /\ nread = 2
    /\ Len(out) = 1
    /\ out[1].hasResult
    /\ out[1].result.kind = "CallToolResult"
    /\ ran.handler = "tools/list"
    /\ pending # <<>>
    /\ Len(Head(pending).Result.Tools) = 2

\* What a successful registration of def must have stored as definition:
\* the name and the description of def, and its schema, or the schema
\* {"type":"object"} when def has none.
StoredAs(stored, def) ==
    /\ stored.Name = def.Name
    /\ stored.Description = def.Description
    /\ def.InputSchema = "nil" => stored.InputSchema = "{type:object}"
    /\ def.InputSchema # "nil" => stored.InputSchema = def.InputSchema

\* C26: a registration that succeeds, with the package, with the Server
\* or with the Server of package mcp, stores under the name of the
\* definition a definition with the schema {"type":"object"} when the
\* caller's definition has a nil schema, and with the caller's schema
\* otherwise; and after every registration call, successful or not, the
\* caller's definition is what it was before the call.
C26_MissingSchemaDefaulted ==
    /\ [][nreg' = nreg + 1 =>
            /\ lastReg'.after = lastReg'.def
            /\ lastReg'.err = "" =>
                IF lastReg'.target = "server"
                THEN StoredAs(tools'[lastReg'.def.Name].Definition, lastReg'.def)
                ELSE StoredAs(registryIndex'[lastReg'.def.Name].Definition, lastReg'.def)]_vars
    /\ [][mcpLast'.n = mcpLast.n + 1 =>
            /\ mcpLast'.after = mcpLast'.def
            /\ mcpLast'.err = "" => StoredAs(mcpTools'[mcpLast'.def.Name].Definition, mcpLast'.def)]_vars

\* C26 witness: alpha was registered with the Server without a schema and
\* is stored with the default one, while the caller's definition still has
\* none; beta was registered with the mcp Server with a schema of its own,
\* which is the one stored.
C26_Witness ==
    /\ lastReg.target = "server"
    /\ lastReg.err = ""
    /\ lastReg.def = ToolDefinition("alpha", "d1", NilSchema)
    /\ lastReg.after.InputSchema = NilSchema
    /\ tools["alpha"].Definition.InputSchema = ObjectSchema
    /\ mcpLast.err = ""
    /\ mcpLast.def.Name = "beta"
    /\ mcpTools["beta"].Definition.InputSchema = "schema"

\* The names of the definitions of a listing, in its order.
ListedNames(list) == [i \in DOMAIN list |-> list[i].Name]

\* C27: a tools/list of the mcp Server returns the definition of every
\* registered tool once, and no other; the order of the list is the order
\* in which the range over the map came upon the entries, which need not
\* be the order of registration.
C27_ListIsSomeOrderOfRegistry ==
    mcpListed.n > 0 =>
        /\ Len(mcpListed.list) = Len(mcpListed.regs)
        /\ {mcpListed.list[i].Name : i \in DOMAIN mcpListed.list}
                = {mcpListed.regs[i] : i \in DOMAIN mcpListed.regs}
        /\ \A i \in DOMAIN mcpListed.list : mcpListed.list[i] = mcpTools[mcpListed.list[i].Name].Definition

\* C27 witness: alpha and then beta were registered with the mcp Server,
\* and a tools/list has returned beta before alpha.
C27_Witness ==
    /\ mcpRegs = <<"alpha", "beta">>
    /\ mcpListed.n > 0
    /\ mcpListed.regs = mcpRegs
    /\ ListedNames(mcpListed.list) = <<"beta", "alpha">>

\* C27 as stated: a tools/list of the mcp Server returns the entries in
\* the order of their registration.
C27_McpListInRegistrationOrder ==
    mcpListed.n > 0 => ListedNames(mcpListed.list) = mcpListed.regs

\* The latest line the line-scanning Server scanned is a tools/call request
\* with an id whose params, if it has any, are an object with at most a
\* string name, and that name is not in the registry.
LineName == StringField(Member(Member(lineWire.v, "params"), "name"))
LineMiss ==
    /\ lineWire.k = "value"
    /\ lineWire.v.t = "obj"
    /\ StringField(Member(lineWire.v, "method")) = "tools/call"
    /\ Member(lineWire.v, "id").t \in {"num", "str"}
    /\ Member(lineWire.v, "params").t \in {"absent", "null", "obj"}
    /\ Member(Member(lineWire.v, "params"), "name").t \in {"absent", "str"}
    /\ LineName \notin DOMAIN lineTools
LastLineOut == lineOut[Len(lineOut)]

\* C28: the line-scanning Server answers a tools/call request with an id
\* whose tool name is not in its registry, the call without params
\* included, with the error code -32602 and the message "Unknown tool: "
\* followed by the name; it never writes the code -32001.
C28_LineMissIsInvalidParams ==
    /\ LineMiss =>
        /\ lineOut # <<>>
        /\ LastLineOut.hasError
        /\ ~LastLineOut.hasResult
        /\ LastLineOut.error.Code = -32602
        /\ LastLineOut.error.Message = "Unknown tool: " \o LineName
    /\ \A i \in DOMAIN lineOut : lineOut[i].hasError => lineOut[i].error.Code # -32001

\* C28 witness: a tools/call with id 1 and no params was answered with
\* -32602 and a message that names the empty tool name.
C28_Witness ==
    /\ LineMiss
    /\ Member(lineWire.v, "params") = JAbsent
    /\ Member(lineWire.v, "id") = JNum("1")
    /\ Len(lineOut) = 2
    /\ LastLineOut.id = JNum("1")
    /\ LastLineOut.error.Code = -32602
    /\ LastLineOut.error.Message = "Unknown tool: "

\* C28 as stated: the registry miss is answered with the application
\* error code -32001.
C28_LineMissIsApplicationError ==
    LineMiss => lineOut # <<>> /\ LastLineOut.hasError /\ LastLineOut.error.Code = -32001

\* C29: Run looks at the context once per iteration, in the step that
\* leads to the decode: it enters the decode only from that check, with
\* the context not cancelled, and it returns the cancellation error only
\* there.  A request decoded after the context was cancelled is handled
\* like any other, whatever its method: a request with an id has one
\* response built, with its id, and Run stays in the iteration until that
\* response is handed to the writer.  At the check that follows Run
\* returns the cancellation error, so that at most one request is decoded
\* after the cancellation.
C29_CancellationPolledOncePerIteration ==
    /\ [][pc # "decode" /\ pc' = "decode" => pc = "poll" /\ ~ctxDone]_vars
    /\ [][nread' # nread => pc = "decode" /\ nread' = nread + 1 /\ pc' = "respond"]_vars
    /\ [][ctxDone /\ nread' = nread + 1 =>
            IF WireId'.t \in {"num", "str"}
            THEN Len(pending') = 1 /\ Encode(pending'[1], heap').id = WireId'
            ELSE pending' = <<>>]_vars
    /\ [][ctxDone /\ pc = "respond" =>
            /\ pc' \in {"respond", "poll"}
            /\ pending # <<>> /\ pc' = "poll" => Len(handed') = Len(handed) + 1]_vars
    /\ [][ctxDone /\ pc = "poll" => pc' = "done" /\ runErr' = "context canceled"]_vars
    /\ [](sinceCancel <= 1)
    /\ [](sinceCancel = 1 => ctxDone /\ pc \in {"respond", "poll", "done"})

\* C29 witness: the context was cancelled while Run was in its first
\* Decode; the echo call that arrived then was handled and its response
\* written, and Run has returned the cancellation error at the next check.
C29_Witness ==
    /\ pc = "done"
    /\ runErr = "context canceled"
    /\ nread = 1
    /\ sinceCancel = 1
    /\ Len(out) = 1
    /\ out[1].hasResult
    /\ out[1].result.kind = "CallToolResult"
    /\ out[1].id = JNum("1")

\* The request being answered is a tools/call that reached the handler of
\* cpu_status with arguments it accepts.
AnsweringCPUCall == pc = "respond" /\ ran.tool = "cpu_status" /\ EnsureNoArguments(Member(WireParams, "arguments")) = ""
\* The one response the iteration builds for the request being answered
\* when the context is done or not at the select and the operating system
\* behaves as env.
CPUCallResponse(done, env) == IterationWith(initialized, done, env).resps

\* C30: with the context cancelled before the sampling window has
\* elapsed, sampleCPUUsage returns the cancellation error once its first
\* sample is taken, whatever the second read of /proc/stat would have
\* given, and the tools/call gets error -32002 with the text of that
\* error and no result; with the context not cancelled and both reads
\* succeeding the sample completes and the call gets its text result.  A
\* cpu_status call ends with the cancellation error only when the context
\* is cancelled.
C30_SamplingRacesCancellation ==
    /\ \A env \in {"ok", "stat2"} : SampleCPUUsage(TRUE, env) = ToolFail("context canceled")
    /\ \A env \in {"ok", "late"} : ~SampleCPUUsage(FALSE, env).failed
    /\ SampleCPUUsage(FALSE, "stat2") = ToolFail("read /proc/stat")
    /\ AnsweringCPUCall /\ WireId.t \in {"num", "str"} =>
        /\ \A env \in {"ok", "stat2"} :
            /\ Len(CPUCallResponse(TRUE, env)) = 1
            /\ IsError(CPUCallResponse(TRUE, env)[1], -32002)
            /\ CPUCallResponse(TRUE, env)[1].Error.Message = "context canceled"
        /\ Len(CPUCallResponse(FALSE, "ok")) = 1
        /\ CPUCallResponse(FALSE, "ok")[1].Error = NilErr
        /\ CPUCallResponse(FALSE, "ok")[1].Result.kind = "CallToolResult"
    /\ AnsweringCPUCall /\ ran.toolRet = ToolFail("context canceled") =>
        /\ ctxDone
        /\ ran.err = NewError(-32002, "context canceled")
        /\ ran.result = NilResult
        /\ WireId.t \in {"num", "str"} =>
            Len(pending) = 1 /\ Head(pending).Error = ran.err /\ Head(pending).Result = NilResult

\* C30 witness: the context was cancelled while Run waited in Decode; the
\* cpu_status call with id 1 that came then has ended with the
\* cancellation error, and its response with -32002 is ready to be
\* written.
C30_Witness ==
    /\ AnsweringCPUCall
    /\ ctxDone
    /\ sinceCancel = 1
    /\ WireId = JNum("1")
    /\ ran.toolRet = ToolFail("context canceled")
    /\ Len(pending) = 1
    /\ IsError(Head(pending), -32002)
    /\ Head(pending).Error.Message = "context canceled"

\* The protocol tag of the envelope v is a string that is neither empty
\* nor the supported version.
UnsupportedTag(v) == Member(v, "jsonrpc").t = "str" /\ Member(v, "jsonrpc").s \notin {"", "2.0"}

\* C31: when Run handles an envelope with an unsupported protocol tag, no
\* handler and no tool runs, the initialized flag and the registry keep
\* their values, and what is built is the error -32600 for an envelope
\* with an id and nothing for one without, whether its method is in the
\* handler table or not: never -32601, and never a result.
C31_VersionCheckPrecedesRouting ==
    [][pc = "decode" /\ pc' = "respond" /\ UnsupportedTag(wire') =>
        /\ ran' = NoRun
        /\ initialized' = initialized
        /\ UNCHANGED <<tools, toolOrder>>
        /\ IF Member(wire', "id").t \in {"num", "str"}
           THEN /\ Len(pending') = 1
                /\ pending'[1].Result = NilResult
                /\ pending'[1].Error # NilErr
                /\ pending'[1].Error.Code = -32600
                /\ pending'[1].Error.Code # -32601
           ELSE pending' = <<>>]_vars

\* C31 witness: an initialize with tag "1.0" and id 1 was answered with
\* -32600 and left the server uninitialized; a request with tag "1.0", an
\* id and a method no handler knows has -32600 built for it.
C31_Witness ==
    /\ pc = "respond"
    /\ nread = 2
    /\ ~initialized
    /\ Len(out) = 1
    /\ HasCode(out[1], -32600)
    /\ out[1].id = JNum("1")
    /\ WireTag = JStr("1.0")
    /\ StringField(Member(wire, "method")) = "anything"
    /\ ran = NoRun
    /\ Len(pending) = 1
    /\ Head(pending).Error.Code = -32600

\* The envelope v is a notification of the supported version for the
\* method `method`: it has no id.
NotificationFor(v, method) ==
    /\ Member(v, "id").t = "absent"
    /\ Member(v, "jsonrpc") = JStr("2.0")
    /\ Member(v, "method") = JStr(method)
\* The params of v are an object whose keys are all among `known`.
ParamsWithin(v, known) == Member(v, "params").t = "obj" /\ Keys(Member(v, "params")) \subseteq known

\* C32: when Run handles an initialize notification whose params are
\* valid, handleInitialize runs and the flag initialized is set; when it
\* handles a tools/call notification whose params name a registered tool,
\* that tool's handler is called once; in both cases nothing is built for
\* the writer, and the output stays as it was.
C32_NotificationRunsHandler ==
    /\ [][pc = "decode" /\ pc' = "respond" /\ NotificationFor(wire', "initialize")
           /\ ParamsWithin(wire', {"protocolVersion"}) =>
            /\ ran'.handler = "initialize"
            /\ ran'.err = NilErr
            /\ ran'.result.kind = "InitializeResult"
            /\ initialized'
            /\ pending' = <<>>
            /\ UNCHANGED <<out, wbuf, handed>>]_vars
    /\ [][pc = "decode" /\ pc' = "respond" /\ NotificationFor(wire', "tools/call")
           /\ ParamsWithin(wire', {"name", "arguments"})
           /\ StringField(Member(Member(wire', "params"), "name")) \in DOMAIN tools =>
            /\ ran'.handler = "tools/call"
            /\ ran'.tool = StringField(Member(Member(wire', "params"), "name"))
            /\ ran'.calls = 1
            /\ pending' = <<>>
            /\ UNCHANGED <<out, wbuf, handed>>]_vars
    /\ [][pc = "respond" /\ Member(wire, "id").t = "absent" => pc' = "poll" /\ UNCHANGED <<out, wbuf, handed>>]_vars

\* C32 witness: an initialize notification has set the flag, a tools/call
\* notification has then run the echo tool, which returned its text, and
\* nothing was written for either.
C32_Witness ==
    /\ pc = "respond"
    /\ nread = 2
    /\ initialized
    /\ inIds = <<>>
    /\ NotificationFor(wire, "tools/call")
    /\ ran.tool = "echo"
    /\ ran.calls = 1
    /\ ~ran.toolRet.failed
    /\ ran.result.kind = "CallToolResult"
    /\ pending = <<>>
    /\ out = <<>>
    /\ handed = <<>>

\* The order sequence and the map of one registry agree.
OrderMatchesMap(index, order) ==
    /\ \A i, j \in DOMAIN order : i # j => order[i] # order[j]
    /\ \A i \in DOMAIN order : order[i] # ""
    /\ {order[i] : i \in DOMAIN order} = DOMAIN index
    /\ Len(order) = Cardinality(DOMAIN index)
    /\ \A n \in DOMAIN index : index[n].Definition.Name = n /\ index[n].Handler # "nil"

\* C33: after any sequence of registration calls, failed ones included,
\* the order of the package registry and the order of the Server hold no
\* name twice and no empty name, hold exactly the keys of their map, as
\* many as the map has entries, and every entry of the map is stored under
\* the name of its definition with a handler that is not nil.
C33_OrderAndMapConsistent ==
    /\ OrderMatchesMap(registryIndex, registryOrder)
    /\ OrderMatchesMap(tools, toolOrder)

\* C33 witness: alpha was registered with the package, and a second
\* registration of alpha there, with another handler, has failed.
C33_Witness ==
    /\ nreg = 2
    /\ lastReg.target = "package"
    /\ lastReg.def.Name = "alpha"
    /\ lastReg.err # ""
    /\ lastReg.handler # NilHandler
    /\ registryOrder = <<"cpu_status", "echo", "alpha">>
    /\ registryIndex["alpha"].Handler # lastReg.handler
    /\ toolOrder = <<"cpu_status", "echo">>

\* A Register call of goroutine g has returned, has returned nil, and the
\* name it was called with; the names the package registers at start-up.
Returned(g) == regPc[g].at = "done"
Succeeded(g) == regPc[g].at = "done" /\ regPc[g].err = ""
NameOf(g) == regPc[g].def.Name
ValidCall(g) == regPc[g].at # "idle" /\ NewRegistration(regPc[g].def, regPc[g].handler).err = ""
InitialNames == DOMAIN MustRegisterAll(Registered, EmptyMap, <<>>).index
Rivals(g) == {h \in Registrars : ValidCall(h) /\ NameOf(h) = NameOf(g)}
Occurrences(order, name) == Cardinality({i \in DOMAIN order : order[i] = name})

\* C34: under concurrent use of the package registry, of the goroutines
\* that register the same new name exactly one succeeds and the others
\* fail with the "exists" error; goroutines that register distinct new
\* names all succeed; every name registered with success is in the order
\* once; and every slice Registered() has returned is a prefix of the
\* order, each element being the registration stored under that name.
C34_RegistrySafeUnderConcurrency ==
    /\ \A g, h \in Registrars : g # h /\ Succeeded(g) /\ Succeeded(h) => NameOf(g) # NameOf(h)
    /\ \A g \in Registrars :
           ValidCall(g) /\ NameOf(g) \notin InitialNames /\ (\A h \in Rivals(g) : Returned(h))
           => /\ Cardinality({h \in Rivals(g) : Succeeded(h)}) = 1
              /\ \A h \in Rivals(g) : ~Succeeded(h) => regPc[h].err = "tool " \o NameOf(g) \o " exists"
    /\ \A g \in Registrars :
           Returned(g) /\ ValidCall(g) /\ NameOf(g) \notin InitialNames /\ Rivals(g) = {g}
           => Succeeded(g)
    /\ \A g \in Registrars : Succeeded(g) => Occurrences(registryOrder, NameOf(g)) = 1
    /\ \A k \in DOMAIN snaps :
           /\ Len(snaps[k]) <= Len(registryOrder)
           /\ \A i \in DOMAIN snaps[k] :
                  /\ registryOrder[i] \in DOMAIN registryIndex
                  /\ snaps[k][i] = registryIndex[registryOrder[i]]
                  /\ snaps[k][i].Definition.Name = registryOrder[i]
                  /\ snaps[k][i].Handler # NilHandler

\* Two goroutines have registered alpha, one with success and one told
\* that it exists, and Registered() has returned the two start-up tools
\* before the registration and all three after it.
C34_Witness ==
    /\ \A g \in Registrars : Returned(g) /\ ValidCall(g) /\ NameOf(g) = "alpha"
    /\ \E g, h \in Registrars : Succeeded(g) /\ regPc[h].err = "tool alpha exists"
    /\ regPc["g1"].handler # regPc["g2"].handler
    /\ Len(snaps) = 2 /\ Len(snaps[1]) = 2 /\ Len(snaps[2]) = 3
    /\ Len(registryOrder) = 3

\* writeResponse is called with a response that carries an id, after an
\* earlier call has failed, on a sink that accepts writes.
WritesAfterFailure ==
    /\ pc = "respond" /\ pending # <<>>
    /\ Head(pending).ID # NilPtr
    /\ wfail /\ sinkUp
    /\ handed' = Append(handed, [reqId |-> WireId, id |-> Encode(Head(pending), heap).id])

\* C35 as the specification states it: a response with an id written after
\* an earlier write failure reaches the output once the sink accepts
\* writes again.
C35_LaterResponsesReachSink ==
    [][WritesAfterFailure => Len(out') > 0 /\ out'[Len(out')] = Encode(Head(pending), heap)]_vars

\* C35 as the code behaves: once a call of writeResponse has failed, the
\* error stays in the bufio.Writer and in the encoder, every later call
\* fails and nothing more reaches the output, whatever the sink accepts.
C35_WriteFailureIsSticky ==
    [][wfail => out' = out /\ wfail' /\ (werr' \/ encErr')]_vars

\* Two requests with an id have been answered; the sink refused the first
\* write and accepted writes at the second, and the output holds nothing.
C35_Witness ==
    /\ sinkLog = <<FALSE, TRUE>>
    /\ Len(handed) = 2 /\ handed[1].id # JAbsent /\ handed[2].id # JAbsent
    /\ wfail /\ out = <<>>

\* NewServer has returned a Server; what its tools/list answers; the
\* options that register a tool; a tools/list result in the output.
Served == srv.called /\ srv.err = ""
ServerList == HandleListTools(initialized, tools, toolOrder).result.Tools
RegisteringOptions == {j \in DOMAIN srv.opts : srv.opts[j].kind = "register"}
ListAnswers == {i \in DOMAIN out : out[i].hasResult /\ out[i].result.kind = "ListToolsResult"}

====
